---- MODULE Spec2Model ----
(***************************************************************************)
(* Model of the receipt-parsing request pipeline of transaction-scanner:   *)
(* the in-memory sliding-window rate limiter (lib/rate-limit.ts), the POST *)
(* handler of app/api/parse-receipt/route.ts and the extraction adapter    *)
(* parseReceiptText (lib/openai.ts).                                       *)
(*                                                                         *)
(* JavaScript runs one handler at a time to its next await, so one action  *)
(* of the model is one synchronous segment of the async POST function:     *)
(*   Receive  - entry to the first await (config check, rate check, the    *)
(*              429 response, the call of request.json())                  *)
(*   Validate - resumption with the body to the second await (validation,  *)
(*              the 400 responses, the call of parseReceiptText)           *)
(*   Respond  - resumption with the adapter's outcome to the return        *)
(* The browser side is modelled the same way: extractText (lib/ocr.ts),    *)
(* the Home page with handleProcess (app/page.tsx), the ReceiptUploader    *)
(* and ReceiptPreview components and the ReceiptProvider context.          *)
(* Requests in flight live in slots; a slot whose request has been         *)
(* answered can take the next request.  Date.now() is the variable now,    *)
(* advanced by Tick and never set back.                                    *)
(***************************************************************************)
EXTENDS Integers, Sequences, FiniteSets, TLC

VARIABLES
    now,         \* Date.now(), in ms since the behaviour began
    ticks,       \* clock advances so far
    requestLog,  \* rate-limit.ts: Map of IP address -> request timestamps
    apiKey,      \* process.env.OPENAI_API_KEY
    slots,       \* the POST invocations in flight or just answered
    started,     \* POST invocations so far
    uuidCount,   \* identifiers drawn by crypto.randomUUID() so far
    admitted,    \* history: per identity, the time of every admitted request
    soloLog,     \* history: per identity, the map of a limiter serving it alone
    retryAt,     \* history: per identity, when its last rejection said to retry
    senders,     \* history: per identity, the socket peers of its admitted requests
    lastCheck,   \* history: the last call of checkRateLimit
    ocr,         \* lib/ocr.ts: the calls of extractText in the browser
    home,        \* app/page.tsx: the state hooks of the Home page
    receiptContext,  \* lib/receipt-context.tsx: the state of ReceiptProvider
    processRuns, \* app/page.tsx: the invocations of handleProcess
    uploader,    \* ReceiptUploader: its error state and its last file pick
    preview      \* ReceiptPreview: its state and the object URLs it created

serverVars == <<now, ticks, requestLog, apiKey, slots, started, uuidCount,
                admitted, soloLog, retryAt, senders, lastCheck>>

pageVars == <<home, receiptContext, processRuns, uploader, preview>>

clientVars == <<ocr, pageVars>>

vars == <<serverVars, clientVars>>

----------------------------------------------------------------------------
(* Program constants *)

MAX_REQUESTS == 10

WINDOW_MS == 60000

MAX_TEXT_LENGTH == 10000

(* Bounds of the model *)

\* requests taken by the concurrent handler specification
MaxRequests == 2

\* requests taken by the one-at-a-time specification
MaxSerial == 2

\* requests taken by the load specifications (more than MAX_REQUESTS)
MaxLoad == 12

\* requests of the sequential scenario
MaxSeq == 12

\* clock advances in one behaviour
MaxTicks == 2

\* requests with a forwarded address among those of direct clients
MaxForwarded == 1

\* events the engine logs during one call of extractText
MaxEvents == 2

\* valid files the user picks on the upload page
MaxPicks == 2

\* object URLs created over the visits of the upload page
MaxUrls == 4

\* the POST invocations that can be in flight at once
Slots == {1, 2}

\* the clock advances by 1 ms or by one millisecond less than the window
TickSteps == {1, WINDOW_MS - 1}

----------------------------------------------------------------------------
(* JavaScript values *)

Undefined == [t |-> "undefined"]

Null == [t |-> "null"]

JNum(n) == [t |-> "number", n |-> n]

JBool(b) == [t |-> "boolean", b |-> b]

\* The text payload is kept as its runs of whitespace ("ws") and
\* non-whitespace ("nw") characters: what trim() and length read.
JStr(runs) == [t |-> "string", s |-> runs]

Run(c, n) == [c |-> c, n |-> n]

RECURSIVE StrLen(_)
StrLen(s) == IF s = <<>> THEN 0 ELSE Head(s).n + StrLen(Tail(s))

DropLast(s) == SubSeq(s, 1, Len(s) - 1)

TrimStart(s) == IF s # <<>> /\ Head(s).c = "ws" THEN Tail(s) ELSE s

TrimEnd(s) == IF s # <<>> /\ s[Len(s)].c = "ws" THEN DropLast(s) ELSE s

\* Faulty variant of Trim: the end is left as it is (trimStart).
TrimStartOnly(s) == TrimStart(s)

\* String.prototype.trim
Trim(s) == TrimEnd(TrimStart(s))

\* typeof
TypeOf(v) == v.t

\* ToBoolean, as the ! operator applies it
Truthy(v) ==
    CASE v.t = "undefined" -> FALSE
      [] v.t = "null" -> FALSE
      [] v.t = "number" -> v.n # 0
      [] v.t = "boolean" -> v.b
      [] v.t = "string" -> v.s # <<>>
      [] OTHER -> TRUE

\* The JSON value of a body: an object with or without a text member, or a
\* value that is no object.
JObj(hasText, text) == [t |-> "object", hasText |-> hasText, text |-> text]

\* body?.text
GetText(body) ==
    IF body.t = "object" /\ body.hasText THEN body.text ELSE Undefined

\* Number to its decimal digits, as String(n) writes a non-negative integer
Digit(d) == <<"0", "1", "2", "3", "4", "5", "6", "7", "8", "9">>[d + 1]

RECURSIVE NumToString(_)
NumToString(n) ==
    IF n < 10 THEN <<Digit(n)>>
    ELSE NumToString(n \div 10) \o <<Digit(n % 10)>>

\* Faulty variant of CeilDiv1000: rounds down (Math.floor).
FloorDiv1000(x) == x \div 1000

\* Math.ceil(x / 1000) on an integer x
CeilDiv1000(x) == IF x % 1000 = 0 THEN x \div 1000 ELSE x \div 1000 + 1

----------------------------------------------------------------------------
(* lib/rate-limit.ts *)

\* Faulty variant of Timestamps: one list shared by every address.
TimestampsShared(log, ip) ==
    IF DOMAIN log = {} THEN <<>> ELSE log[CHOOSE k \in DOMAIN log : TRUE]

\* Map.get(ip) ?? []
Timestamps(log, ip) == IF ip \in DOMAIN log THEN log[ip] ELSE <<>>

\* Faulty variant of MapSet: the write is lost.
MapSetLost(m, k, v) == m

\* Map.set
MapSet(m, k, v) == [x \in DOMAIN m \cup {k} |-> IF x = k THEN v ELSE m[x]]

\* Faulty variant of InWindow: an entry exactly WINDOW_MS old is kept (<=).
InWindowInclusive(t, timestamp) == t - timestamp <= WINDOW_MS

InWindow(t, timestamp) == t - timestamp < WINDOW_MS

\* Faulty variant of RecentTimestamps: the filter is inverted and keeps the
\* expired entries.
RecentTimestampsInverted(timestamps, t) ==
    SelectSeq(timestamps, LAMBDA timestamp : ~(t - timestamp < WINDOW_MS))

\* Faulty variant of RecentTimestamps: nothing is removed.
RecentTimestampsUnfiltered(timestamps, t) == timestamps

RecentTimestamps(timestamps, t) ==
    SelectSeq(timestamps, LAMBDA timestamp : InWindow(t, timestamp))

\* Faulty variant of LimitReached: one request too many (> for >=).
LimitReachedOffByOne(recentTimestamps) == Len(recentTimestamps) > MAX_REQUESTS

LimitReached(recentTimestamps) == Len(recentTimestamps) >= MAX_REQUESTS

\* Faulty variant of RetryAfterMs: the newest entry is taken for the oldest.
RetryAfterMsNewest(recentTimestamps, t) ==
    WINDOW_MS - (t - recentTimestamps[Len(recentTimestamps)])

RetryAfterMs(recentTimestamps, t) == WINDOW_MS - (t - recentTimestamps[1])

\* Faulty variant of CheckRateLimit: the new timestamp is put in front
\* (unshift for push).
CheckRateLimitUnshift(log, ip, t) ==
    LET recentTimestamps == RecentTimestamps(Timestamps(log, ip), t)
    IN  IF LimitReached(recentTimestamps)
        THEN [result |-> [allowed |-> FALSE,
                          retryAfterMs |-> RetryAfterMs(recentTimestamps, t)],
              log |-> log]
        ELSE [result |-> [allowed |-> TRUE],
              log |-> MapSet(log, ip, <<t>> \o recentTimestamps)]

\* Faulty variant of CheckRateLimit: a rejected address loses its entry.
CheckRateLimitEvicting(log, ip, t) ==
    LET recentTimestamps == RecentTimestamps(Timestamps(log, ip), t)
    IN  IF LimitReached(recentTimestamps)
        THEN [result |-> [allowed |-> FALSE,
                          retryAfterMs |-> RetryAfterMs(recentTimestamps, t)],
              log |-> [x \in DOMAIN log \ {ip} |-> log[x]]]
        ELSE [result |-> [allowed |-> TRUE],
              log |-> MapSet(log, ip, Append(recentTimestamps, t))]

\* Faulty variant of CheckRateLimit: the admitting result has a retryAfterMs
\* too, of 0.
CheckRateLimitZeroRetry(log, ip, t) ==
    LET recentTimestamps == RecentTimestamps(Timestamps(log, ip), t)
    IN  IF LimitReached(recentTimestamps)
        THEN [result |-> [allowed |-> FALSE,
                          retryAfterMs |-> RetryAfterMs(recentTimestamps, t)],
              log |-> log]
        ELSE [result |-> [allowed |-> TRUE, retryAfterMs |-> 0],
              log |-> MapSet(log, ip, Append(recentTimestamps, t))]

\* Faulty variant of CheckRateLimit: a rejected request is recorded too.
CheckRateLimitRecording(log, ip, t) ==
    LET recentTimestamps == RecentTimestamps(Timestamps(log, ip), t)
    IN  [result |-> IF LimitReached(recentTimestamps)
                    THEN [allowed |-> FALSE,
                          retryAfterMs |-> RetryAfterMs(recentTimestamps, t)]
                    ELSE [allowed |-> TRUE],
         log |-> MapSet(log, ip, Append(recentTimestamps, t))]

\* checkRateLimit at time t: the result and the map it leaves
CheckRateLimit(log, ip, t) ==
    LET timestamps == Timestamps(log, ip)
        recentTimestamps == RecentTimestamps(timestamps, t)
    IN  IF LimitReached(recentTimestamps)
        THEN [result |-> [allowed |-> FALSE,
                          retryAfterMs |-> RetryAfterMs(recentTimestamps, t)],
              log |-> log]
        ELSE [result |-> [allowed |-> TRUE],
              log |-> MapSet(log, ip, Append(recentTimestamps, t))]

\* Faulty variant of Cleared: the map is left as it is.
NotCleared(log) == log

\* Map.clear
Cleared(log) == [k \in {} |-> <<>>]

----------------------------------------------------------------------------
(* lib/openai.ts *)

\* crypto.randomUUID(): the n-th identifier drawn in the behaviour
RandomUUID(n) == <<"uuid", n>>

NoDataMessage == <<"Failed to parse receipt: no data returned from AI">>

\* Faulty variant of EnrichItems: one identifier is drawn and given to every
\* item.
EnrichItemsSharedId(items, n) ==
    [i \in 1..Len(items) |->
        [id |-> RandomUUID(n + 1), name |-> items[i].name,
         price |-> items[i].price]]

EnrichItems(items, n) ==
    [i \in 1..Len(items) |->
        [id |-> RandomUUID(n + i), name |-> items[i].name,
         price |-> items[i].price]]

\* Faulty variant of ParseReceiptText: no check of the parsed result, null
\* is returned as the receipt.
ParseReceiptTextUnchecked(ocrText, completion, n) ==
    IF completion.k = "rejects"
    THEN [k |-> "throws", error |-> completion.message, drawn |-> n]
    ELSE IF completion.parsed = Null
    THEN [k |-> "returns", value |-> Null, drawn |-> n]
    ELSE [k |-> "returns",
          value |-> [store |-> completion.parsed.store,
                     date |-> completion.parsed.date,
                     items |-> EnrichItems(completion.parsed.items, n),
                     tax |-> completion.parsed.tax,
                     total |-> completion.parsed.total],
          drawn |-> n + Len(completion.parsed.items)]

\* parseReceiptText, resumed with the outcome of the completions call, n
\* identifiers having been drawn so far: it throws or returns a receipt.
ParseReceiptText(ocrText, completion, n) ==
    IF completion.k = "rejects"
    THEN [k |-> "throws", error |-> completion.message, drawn |-> n]
    ELSE LET parsedReceipt == completion.parsed
         IN  IF parsedReceipt = Null
             THEN [k |-> "throws", error |-> NoDataMessage, drawn |-> n]
             ELSE [k |-> "returns",
                   value |-> [store |-> parsedReceipt.store,
                              date |-> parsedReceipt.date,
                              items |-> EnrichItems(parsedReceipt.items, n),
                              tax |-> parsedReceipt.tax,
                              total |-> parsedReceipt.total],
                   drawn |-> n + Len(parsedReceipt.items)]

----------------------------------------------------------------------------
(* app/api/parse-receipt/route.ts *)

\* Faulty variant of MsgConfig: the line written to the log is sent.
MsgConfigLogged == <<"OPENAI_API_KEY is not configured">>

MsgConfig == <<"Server configuration error. Please try again later.">>

MsgTooMany == <<"Too many requests. Please wait before trying again.">>

MsgInvalidBody == <<"Invalid request body. Expected JSON with a 'text' field.">>

MsgMissingText ==
    <<"Missing or invalid 'text' field. Expected a non-empty string.">>

\* Faulty variant of MsgEmptyText: the message of the branch before it.
MsgEmptyTextCopied == MsgMissingText

MsgEmptyText == <<"The 'text' field is empty after trimming whitespace.">>

MsgTooLong ==
    <<"Text exceeds maximum length of ">> \o NumToString(MAX_TEXT_LENGTH)
        \o <<" characters.">>

MsgParseFailed == <<"Failed to parse receipt. Please try again.">>

NoHeaders == [h \in {} |-> <<>>]

\* NextResponse.json({ error }, { status, headers })
ErrorResponse(status, message, headers) ==
    [status |-> status, body |-> [error |-> message], headers |-> headers]

\* NextResponse.json(receipt)
OkResponse(receipt) == [status |-> 200, body |-> receipt, headers |-> NoHeaders]

\* Faulty variant of KeyMissing: only an unset variable counts as missing
\* (=== undefined), an empty one does not.
KeyMissingUndefinedOnly(key) == key = Undefined

\* !process.env.OPENAI_API_KEY
KeyMissing(key) == ~Truthy(key)

\* The address of the socket's peer, which POST does not read; a request
\* built by hand has none.
Peer(hdr) == IF "peer" \in DOMAIN hdr THEN hdr.peer ELSE "none"

\* Faulty variant of ClientIp: without the header the peer's address is the
\* identity.
ClientIpOrPeer(hdr) == IF hdr.present THEN hdr.value ELSE Peer(hdr)

\* request.headers.get("x-forwarded-for") ?? "unknown"
ClientIp(hdr) == IF hdr.present THEN hdr.value ELSE "unknown"

\* String(Math.ceil((rateLimitResult.retryAfterMs ?? 0) / 1000))
RetryAfterHeader(result) ==
    NumToString(CeilDiv1000(IF "retryAfterMs" \in DOMAIN result
                            THEN result.retryAfterMs ELSE 0))

RateLimitedResponse(result) ==
    ErrorResponse(429, MsgTooMany, "Retry-After" :> RetryAfterHeader(result))

\* Faulty variant of TextMissing: the type alone is checked.
TextMissingTypeOnly(text) == TypeOf(text) # "string"

\* !text || typeof text !== "string"
TextMissing(text) == ~Truthy(text) \/ TypeOf(text) # "string"

\* Faulty variant of TextEmpty: no text counts as empty.
TextEmptyNever(trimmedText) == FALSE

\* trimmedText.length === 0
TextEmpty(trimmedText) == StrLen(trimmedText) = 0

\* Faulty variant of TextTooLong: a text of MAX_TEXT_LENGTH characters is
\* refused too (>= for >).
TextTooLongInclusive(trimmedText) == StrLen(trimmedText) >= MAX_TEXT_LENGTH

TextTooLong(trimmedText) == StrLen(trimmedText) > MAX_TEXT_LENGTH

\* Step 3 of POST on the outcome of request.json(): the 400 response, or the
\* trimmed text to hand to the adapter.
ValidateBody(parsed) ==
    IF parsed.k = "throws"
    THEN [ok |-> FALSE, response |-> ErrorResponse(400, MsgInvalidBody, NoHeaders)]
    ELSE LET text == GetText(parsed.body)
         IN  IF TextMissing(text)
             THEN [ok |-> FALSE,
                   response |-> ErrorResponse(400, MsgMissingText, NoHeaders)]
             ELSE LET trimmedText == Trim(text.s)
                  IN  IF TextEmpty(trimmedText)
                      THEN [ok |-> FALSE,
                            response |-> ErrorResponse(400, MsgEmptyText, NoHeaders)]
                      ELSE IF TextTooLong(trimmedText)
                      THEN [ok |-> FALSE,
                            response |-> ErrorResponse(400, MsgTooLong, NoHeaders)]
                      ELSE [ok |-> TRUE, trimmedText |-> trimmedText]

\* Faulty variant of ParseFailedResponse: the error's message is sent along.
ParseFailedResponseLeaky(error) ==
    ErrorResponse(500, <<"Failed to parse receipt: ">> \o error, NoHeaders)

\* The catch block of step 4
ParseFailedResponse(error) == ErrorResponse(500, MsgParseFailed, NoHeaders)

\* Step 4 of POST on the outcome of parseReceiptText
ExtractionResponse(outcome) ==
    IF outcome.k = "returns" THEN OkResponse(outcome.value)
    ELSE ParseFailedResponse(outcome.error)

----------------------------------------------------------------------------
(* Inputs of the request handler *)

Header(v) == [present |-> TRUE, value |-> v]

NoHeader == [present |-> FALSE]

Headers == {NoHeader, Header("1.2.3.4")}

\* A request of a client that connects directly: no forwarded address
NoHeaderFrom(peer) == [present |-> FALSE, peer |-> peer]

Peers == {"10.0.0.1", "10.0.0.2"}

DirectHeaders == {NoHeaderFrom(peer) : peer \in Peers}

Identities == {ClientIp(h) : h \in Headers \cup DirectHeaders}

\* request.json() rejects (no JSON) or resolves with a JSON value
BodyThrows == [k |-> "throws"]

Body(json) == [k |-> "resolves", body |-> json]

TextBody(runs) == Body(JObj(TRUE, JStr(runs)))

\* "receipt text"
ReceiptText == <<Run("nw", 7), Run("ws", 1), Run("nw", 4)>>

Texts ==
    { <<>>,
      <<Run("ws", 1)>>,
      <<Run("ws", 3)>>,
      <<Run("ws", MAX_TEXT_LENGTH + 1)>>,
      ReceiptText,
      <<Run("ws", 2), Run("nw", 7), Run("ws", 1), Run("nw", 4), Run("ws", 1)>>,
      <<Run("nw", MAX_TEXT_LENGTH)>>,
      <<Run("nw", MAX_TEXT_LENGTH + 1)>>,
      <<Run("ws", 1), Run("nw", MAX_TEXT_LENGTH), Run("ws", 1)>>,
      <<Run("ws", 1), Run("nw", MAX_TEXT_LENGTH + 1)>> }

Bodies ==
    {BodyThrows, Body(Null), Body(JNum(5)), Body(JStr(ReceiptText)),
     Body(JObj(FALSE, Undefined)), Body(JObj(TRUE, Null)),
     Body(JObj(TRUE, JNum(0))), Body(JObj(TRUE, JNum(123))),
     Body(JObj(TRUE, JBool(FALSE))), Body(JObj(TRUE, JBool(TRUE)))}
        \cup {TextBody(t) : t \in Texts}

\* What openai.beta.chat.completions.parse can do
Rejects(message) == [k |-> "rejects", message |-> message]

Resolves(parsed) == [k |-> "resolves", parsed |-> parsed]

UpstreamMessages ==
    { <<"Request failed: invalid API key ", "sk-abc123">>,
      <<"connect ETIMEDOUT at ", "/app/lib/openai.ts:42">> }

EmptyCandidate ==
    [store |-> Null, date |-> Null, items |-> <<>>, tax |-> 0, total |-> 0]

\* prices in cents
WalmartCandidate ==
    [store |-> "Walmart", date |-> "2024-01-15",
     items |-> <<[name |-> "Milk 2%", price |-> 399],
                 [name |-> "Bread", price |-> 249]>>,
     tax |-> 52, total |-> 700]

\* the same line twice
TwinCandidate ==
    [store |-> "Costco", date |-> Null,
     items |-> <<[name |-> "Eggs", price |-> 500],
                 [name |-> "Eggs", price |-> 500]>>,
     tax |-> 0, total |-> 1000]

Completions ==
    {Rejects(m) : m \in UpstreamMessages}
        \cup {Resolves(Null), Resolves(EmptyCandidate), Resolves(WalmartCandidate),
              Resolves(TwinCandidate)}

TestKey == JStr(<<"sk-test-key">>)

EnvKeys == {Undefined, JStr(<<>>), TestKey}

----------------------------------------------------------------------------
(* lib/ocr.ts *)

\* The calls of extractText that can be under way at once
Calls == {1, 2}

ImageFile(name, type) == [name |-> name, type |-> type]

JpegFile == ImageFile("receipt.jpg", "image/jpeg")

PngFile == ImageFile("receipt.png", "image/png")

TextFile == ImageFile("bad.txt", "text/plain")

\* What the engine's logger is called with; progress in hundredths
LogInfo(status, progress) == [status |-> status, progress |-> progress]

Statuses == {"initializing api", "recognizing text"}

Progresses == {0, 50, 100}

LogInfos == {LogInfo(status, progress) : status \in Statuses, progress \in Progresses}

\* What worker.recognize resolves with: data, of which text and confidence
\* are two fields among others
Recognized(text, confidence) ==
    [data |-> [text |-> text, confidence |-> confidence, hocr |-> "<div/>"]]

Recognitions ==
    {Recognized(ReceiptText, 92), Recognized(<<>>, 0)}

\* A thrown Error object with its message
JError(message) == [t |-> "error", message |-> message]

\* What the engine's promises reject with: Error objects, or a bare string
OcrErrors ==
    {JError(<<"Image processing failed">>), JError(<<"Worker failed to load">>),
     JStr(<<"worker crashed">>)}

\* One call of extractText: where it stands, its arguments, the worker it
\* holds, what the try block left to return or throw, how its promise
\* settled, and, as history, the events logged, the values given to
\* onProgress and the calls it made.
IdleCall ==
    [pc |-> "idle", file |-> Undefined, hasOnProgress |-> FALSE,
     workers |-> 0, terminated |-> 0, pending |-> Undefined,
     settled |-> Undefined, events |-> <<>>, delivered |-> <<>>,
     steps |-> <<>>]

\* Faulty variant of Forwarded: every event is forwarded, whatever its status.
ForwardedAlways(info, hasOnProgress) == hasOnProgress

\* The logger: info.status === "recognizing text" && onProgress
Forwarded(info, hasOnProgress) ==
    info.status = "recognizing text" /\ hasOnProgress

\* extractText up to its first await: the call of createWorker
ExtractText(c, file, hasOnProgress) ==
    /\ UNCHANGED serverVars
    /\ ocr[c].pc \in {"idle", "settled"}
    /\ ocr' = [ocr EXCEPT ![c] =
           [IdleCall EXCEPT !.pc = "createWorker", !.file = file,
               !.hasOnProgress = hasOnProgress, !.steps = <<"createWorker">>]]

\* The engine calls the logger it was given.
Log(c, info) ==
    /\ UNCHANGED serverVars
    /\ ocr[c].pc \in {"createWorker", "recognize", "terminate"}
    /\ Len(ocr[c].events) < MaxEvents
    /\ ocr' = [ocr EXCEPT ![c] =
           [@ EXCEPT !.events = Append(@, info),
               !.delivered = IF Forwarded(info, ocr[c].hasOnProgress)
                             THEN Append(@, info.progress) ELSE @]]

\* createWorker resolves: the worker is held and worker.recognize is called.
WorkerCreated(c) ==
    /\ UNCHANGED serverVars
    /\ ocr[c].pc = "createWorker"
    /\ ocr' = [ocr EXCEPT ![c] =
           [@ EXCEPT !.pc = "recognize", !.workers = @ + 1,
               !.steps = Append(@, "recognize")]]

\* createWorker rejects: extractText rejects, no worker having been held.
WorkerFailed(c, error) ==
    /\ UNCHANGED serverVars
    /\ ocr[c].pc = "createWorker"
    /\ ocr' = [ocr EXCEPT ![c] =
           [@ EXCEPT !.pc = "settled",
               !.settled = [k |-> "rejected", error |-> error],
               !.steps = Append(@, "settle")]]

\* worker.recognize resolves: text and confidence are left to be returned,
\* and the finally block calls worker.terminate.
RecognizeDone(c, recognized) ==
    /\ UNCHANGED serverVars
    /\ ocr[c].pc = "recognize"
    /\ ocr' = [ocr EXCEPT ![c] =
           [@ EXCEPT !.pc = "terminate", !.terminated = @ + 1,
               !.pending = [k |-> "resolved",
                            value |-> [text |-> recognized.data.text,
                                       confidence |-> recognized.data.confidence]],
               !.steps = Append(@, "terminate")]]

\* Faulty variant of RecognizeFailed: no finally block, the error leaves
\* extractText at once.
RecognizeFailedLeaking(c, error) ==
    /\ UNCHANGED serverVars
    /\ ocr[c].pc = "recognize"
    /\ ocr' = [ocr EXCEPT ![c] =
           [@ EXCEPT !.pc = "settled",
               !.settled = [k |-> "rejected", error |-> error],
               !.steps = Append(@, "settle")]]

\* worker.recognize rejects: the error is left to be thrown, and the finally
\* block calls worker.terminate.
RecognizeFailed(c, error) ==
    /\ UNCHANGED serverVars
    /\ ocr[c].pc = "recognize"
    /\ ocr' = [ocr EXCEPT ![c] =
           [@ EXCEPT !.pc = "terminate", !.terminated = @ + 1,
               !.pending = [k |-> "rejected", error |-> error],
               !.steps = Append(@, "terminate")]]

\* worker.terminate resolves: extractText settles as the try block left it.
TerminateDone(c) ==
    /\ UNCHANGED serverVars
    /\ ocr[c].pc = "terminate"
    /\ ocr' = [ocr EXCEPT ![c] =
           [@ EXCEPT !.pc = "settled", !.settled = ocr[c].pending,
               !.steps = @ \o <<"terminated", "settle">>]]

\* worker.terminate rejects: its error leaves the finally block.
TerminateFailed(c, error) ==
    /\ UNCHANGED serverVars
    /\ ocr[c].pc = "terminate"
    /\ ocr' = [ocr EXCEPT ![c] =
           [@ EXCEPT !.pc = "settled",
               !.settled = [k |-> "rejected", error |-> error],
               !.steps = @ \o <<"terminated", "settle">>]]

----------------------------------------------------------------------------
(* components/ReceiptUploader.tsx, components/ReceiptPreview.tsx *)

VALID_TYPES == {"image/jpeg", "image/png"}

MsgInvalidFile == <<"Please select a JPG or PNG image">>

\* event.target.files?.[0] of a change event that carries no file
NoFile == Undefined

\* ReceiptUploader: its error state and, as history, the file of the last
\* change event and whether onFileSelect was called with it
InitialUploader == [error |-> Null, lastPick |-> NoFile, onFileSelect |-> FALSE]

\* URL.createObjectURL: a URL no earlier call returned
ObjectURL(file, n) == [blob |-> file, id |-> n]

\* ReceiptPreview: its previewUrl state and, of the object URLs it created,
\* how many there are and which are not revoked
InitialPreview == [previewUrl |-> Null, created |-> 0, unrevoked |-> {}]

\* What ReceiptPreview renders: nothing without a previewUrl, else the image
PreviewShown(p) == p.previewUrl # Null

\* Faulty variant of PreviewEffect: the effect returns no cleanup, the URL
\* of the file before is never revoked.
PreviewEffectLeaking(p, file) ==
    LET url == ObjectURL(file, p.created + 1)
    IN  [previewUrl |-> url, created |-> p.created + 1,
         unrevoked |-> p.unrevoked \cup {url}]

\* The effect of ReceiptPreview when its file changes to another file: the
\* cleanup of the effect before revokes that effect's URL, then a URL is
\* created for the new file and set as previewUrl.
PreviewEffect(p, file) ==
    LET url == ObjectURL(file, p.created + 1)
        kept == IF p.previewUrl = Null THEN p.unrevoked
                ELSE p.unrevoked \ {p.previewUrl}
    IN  [previewUrl |-> url, created |-> p.created + 1,
         unrevoked |-> kept \cup {url}]

\* ReceiptPreview unmounts: the cleanup of its last effect revokes that
\* effect's URL, and its state is dropped.
PreviewCleanup(p) ==
    [previewUrl |-> Null, created |-> p.created,
     unrevoked |-> IF p.previewUrl = Null THEN p.unrevoked
                   ELSE p.unrevoked \ {p.previewUrl}]

----------------------------------------------------------------------------
(* lib/receipt-context.tsx, app/page.tsx *)

InitialContext == [receipt |-> Null, receiptImage |-> Null]

InitialHome ==
    [selectedFile |-> Null, ocrResult |-> Null, ocrProgress |-> 0,
     isProcessing |-> FALSE, ocrError |-> Null, isParsing |-> FALSE,
     parseError |-> Null]

\* One invocation of handleProcess: where it stands, the selectedFile of the
\* render whose button was clicked, ocrText, the response of fetch, and, as
\* history, its calls of extractText and the bodies of its calls of fetch.
IdleRun ==
    [pc |-> "idle", file |-> Undefined, ocrText |-> Undefined,
     response |-> Undefined, extractCalls |-> 0, sent |-> <<>>]

\* {selectedFile && (<Button ...>)}
ButtonShown(h) == h.selectedFile # Null

\* Faulty variant of ButtonDisabled: the button is never disabled.
ButtonDisabledNever(h) == FALSE

\* disabled={isProcessing}
ButtonDisabled(h) == h.isProcessing

\* err instanceof Error ? err.message : fallback
ErrorMessage(err, fallback) ==
    IF err.t = "error" THEN JStr(err.message) ELSE JStr(fallback)

\* The body JSON.stringify({ text: ocrText }) writes, as request.json()
\* reads it back on the server
FetchBody(ocrText) == TextBody(ocrText)

\* response.ok
ResponseOk(response) == response.status >= 200 /\ response.status <= 299

\* A body that is no JSON text: response.json() rejects
NotJson == [t |-> "html"]

\* errorData.error
GetError(errorData) ==
    IF "error" \in DOMAIN errorData THEN JStr(errorData.error) ELSE Undefined

\* errorData.error || "Failed to parse receipt"
ErrorDataMessage(errorData) ==
    IF Truthy(GetError(errorData)) THEN errorData.error
    ELSE <<"Failed to parse receipt">>

\* The change event of the file input: handleFileChange, and for a valid
\* file onFileSelect = setSelectedFile, the render of Home and the effect of
\* ReceiptPreview for the new file prop.
HandleFileChange(file) ==
    /\ UNCHANGED <<serverVars, ocr, receiptContext, processRuns>>
    /\ file # NoFile
    /\ IF file.type \notin VALID_TYPES
       THEN /\ uploader' = [error |-> JStr(MsgInvalidFile), lastPick |-> file,
                            onFileSelect |-> FALSE]
            /\ UNCHANGED <<home, preview>>
       ELSE /\ uploader' = [error |-> Null, lastPick |-> file,
                            onFileSelect |-> TRUE]
            /\ home' = [home EXCEPT !.selectedFile = file]
            /\ preview' = PreviewEffect(preview, file)

\* Faulty variant of HandleProcess: the receipt in the context is not reset.
HandleProcessKeepingReceipt(r) ==
    /\ UNCHANGED <<serverVars, uploader, preview, receiptContext>>
    /\ ButtonShown(home)
    /\ ~ButtonDisabled(home)
    /\ processRuns[r].pc \in {"idle", "done"}
    /\ \A q \in Calls : q < r => processRuns[q].pc \notin {"idle", "done"}
    /\ ExtractText(r, home.selectedFile, TRUE)
    /\ home' = [home EXCEPT !.isProcessing = TRUE, !.ocrError = Null,
                   !.parseError = Null, !.ocrResult = Null, !.ocrProgress = 0]
    /\ processRuns' = [processRuns EXCEPT ![r] =
           [IdleRun EXCEPT !.pc = "ocr", !.file = home.selectedFile,
               !.extractCalls = 1]]

\* A click on the Process button: handleProcess to its first await, the call
\* of extractText.  The invocation takes the lowest run that is free.
HandleProcess(r) ==
    /\ UNCHANGED <<serverVars, uploader, preview>>
    /\ ButtonShown(home)
    /\ ~ButtonDisabled(home)
    /\ processRuns[r].pc \in {"idle", "done"}
    /\ \A q \in Calls : q < r => processRuns[q].pc \notin {"idle", "done"}
    /\ ExtractText(r, home.selectedFile, TRUE)
    /\ home' = [home EXCEPT !.isProcessing = TRUE, !.ocrError = Null,
                   !.parseError = Null, !.ocrResult = Null, !.ocrProgress = 0]
    /\ receiptContext' = [receiptContext EXCEPT !.receipt = Null]
    /\ processRuns' = [processRuns EXCEPT ![r] =
           [IdleRun EXCEPT !.pc = "ocr", !.file = home.selectedFile,
               !.extractCalls = 1]]

\* The engine logs during the OCR of a run; what the logger forwards is
\* given to (progress) => setOcrProgress(progress).
OnProgress(r, info) ==
    /\ processRuns[r].pc = "ocr"
    /\ Log(r, info)
    /\ LET given == ocr'[r].delivered IN
           home' = IF Len(given) > Len(ocr[r].delivered)
                   THEN [home EXCEPT !.ocrProgress = given[Len(given)]]
                   ELSE home
    /\ UNCHANGED <<receiptContext, processRuns, uploader, preview>>

\* extractText resolved: handleProcess from ocrText = result.text to its
\* second await, the call of fetch.
OcrResolved(r) ==
    /\ UNCHANGED <<serverVars, ocr, receiptContext, uploader, preview>>
    /\ processRuns[r].pc = "ocr"
    /\ ocr[r].pc = "settled"
    /\ ocr[r].settled.k = "resolved"
    /\ LET ocrText == ocr[r].settled.value.text IN
           processRuns' = [processRuns EXCEPT ![r] =
               [@ EXCEPT !.pc = "fetch", !.ocrText = ocrText,
                   !.sent = Append(@, FetchBody(ocrText))]]
    /\ home' = [home EXCEPT !.isParsing = TRUE]

\* Faulty variant of OcrRejected: the catch block does not return, and
\* phase 2 goes on with an ocrText that was never assigned.
OcrRejectedContinuing(r) ==
    /\ UNCHANGED <<serverVars, ocr, receiptContext, uploader, preview>>
    /\ processRuns[r].pc = "ocr"
    /\ ocr[r].pc = "settled"
    /\ ocr[r].settled.k = "rejected"
    /\ home' = [home EXCEPT
           !.ocrError = ErrorMessage(ocr[r].settled.error, <<"OCR failed">>),
           !.isProcessing = FALSE, !.isParsing = TRUE]
    /\ processRuns' = [processRuns EXCEPT ![r] =
           [@ EXCEPT !.pc = "fetch",
               !.sent = Append(@, Body(JObj(FALSE, Undefined)))]]

\* extractText rejected: the catch block of phase 1, to its return.
OcrRejected(r) ==
    /\ UNCHANGED <<serverVars, ocr, receiptContext, uploader, preview>>
    /\ processRuns[r].pc = "ocr"
    /\ ocr[r].pc = "settled"
    /\ ocr[r].settled.k = "rejected"
    /\ home' = [home EXCEPT
           !.ocrError = ErrorMessage(ocr[r].settled.error, <<"OCR failed">>),
           !.isProcessing = FALSE]
    /\ processRuns' = [processRuns EXCEPT ![r] = [@ EXCEPT !.pc = "done"]]

\* fetch resolved: response.ok is read and response.json() is called and
\* awaited, on either branch.
FetchResponded(r, response) ==
    /\ UNCHANGED <<serverVars, ocr, home, receiptContext, uploader, preview>>
    /\ processRuns[r].pc = "fetch"
    /\ processRuns' = [processRuns EXCEPT ![r] = [@ EXCEPT !.pc = "json", !.response = response]]

\* Faulty variant of FetchFailed: the flags are reset at the end of the try
\* block only, there is no finally block.
FetchFailedStuck(r, error) ==
    /\ UNCHANGED <<serverVars, ocr, receiptContext, uploader, preview>>
    /\ processRuns[r].pc = "fetch"
    /\ home' = [home EXCEPT
           !.parseError = ErrorMessage(error, <<"Failed to parse receipt">>)]
    /\ processRuns' = [processRuns EXCEPT ![r] = [@ EXCEPT !.pc = "done"]]

\* fetch rejected (the network failed): the catch and finally blocks.
FetchFailed(r, error) ==
    /\ UNCHANGED <<serverVars, ocr, receiptContext, uploader, preview>>
    /\ processRuns[r].pc = "fetch"
    /\ home' = [home EXCEPT
           !.parseError = ErrorMessage(error, <<"Failed to parse receipt">>),
           !.isProcessing = FALSE, !.isParsing = FALSE]
    /\ processRuns' = [processRuns EXCEPT ![r] = [@ EXCEPT !.pc = "done"]]

\* response.json() resolved: of a response that is not ok the error is
\* thrown and caught, of one that is ok the receipt and the image are put
\* in the context; then the finally block.
JsonParsed(r) ==
    /\ UNCHANGED <<serverVars, ocr, uploader, preview>>
    /\ processRuns[r].pc = "json"
    /\ processRuns[r].response.body # NotJson
    /\ IF ~ResponseOk(processRuns[r].response)
       THEN /\ home' = [home EXCEPT
                   !.parseError =
                       ErrorMessage(JError(ErrorDataMessage(processRuns[r].response.body)),
                                    <<"Failed to parse receipt">>),
                   !.isProcessing = FALSE, !.isParsing = FALSE]
            /\ UNCHANGED receiptContext
       ELSE /\ receiptContext' =
                   [receipt |-> processRuns[r].response.body,
                    receiptImage |-> processRuns[r].file]
            /\ home' = [home EXCEPT !.isProcessing = FALSE, !.isParsing = FALSE]
    /\ processRuns' = [processRuns EXCEPT ![r] = [@ EXCEPT !.pc = "done"]]

\* response.json() rejected: the catch and finally blocks.
JsonFailed(r, error) ==
    /\ UNCHANGED <<serverVars, ocr, receiptContext, uploader, preview>>
    /\ processRuns[r].pc = "json"
    /\ processRuns[r].response.body = NotJson
    /\ home' = [home EXCEPT
           !.parseError = ErrorMessage(error, <<"Failed to parse receipt">>),
           !.isProcessing = FALSE, !.isParsing = FALSE]
    /\ processRuns' = [processRuns EXCEPT ![r] = [@ EXCEPT !.pc = "done"]]

\* Home leaves the screen while no run of handleProcess is under way: its
\* state and that of its components is dropped, what the ReceiptProvider of
\* the layout holds stays.  The state left is the one a later visit of the
\* page starts from.
Unmount ==
    /\ UNCHANGED <<serverVars, ocr, receiptContext>>
    /\ \A r \in Calls : processRuns[r].pc \in {"idle", "done"}
    /\ home' = InitialHome
    /\ uploader' = InitialUploader
    /\ processRuns' = [r \in Calls |-> IdleRun]
    /\ preview' = PreviewCleanup(preview)

----------------------------------------------------------------------------
(* State *)

EmptyMap == [k \in {} |-> <<>>]

IdleSlot ==
    [pc |-> "idle", hdr |-> NoHeader, request |-> BodyThrows,
     clientIp |-> Undefined, rateLimitResult |-> Undefined,
     adapterArg |-> Undefined, adapterCalls |-> 0, stages |-> <<>>,
     completion |-> Undefined, response |-> Undefined, logged |-> <<>>]

\* What the last call of checkRateLimit was given and gave: the identity,
\* the time, the result, how many requests of the identity had been admitted
\* before it, the deadline of the identity's preceding rejection (-1 when the
\* preceding call was none), and the result of a limiter serving the
\* identity alone.
NoCheck ==
    [made |-> FALSE, ip |-> "", at |-> 0, result |-> Undefined, before |-> 0,
     prevRetryAt |-> -1, solo |-> Undefined]

Init ==
    /\ now = 0
    /\ ticks = 0
    /\ requestLog = EmptyMap
    /\ apiKey \in EnvKeys
    /\ slots = [s \in Slots |-> IdleSlot]
    /\ started = 0
    /\ uuidCount = 0
    /\ admitted = [ip \in Identities |-> <<>>]
    /\ soloLog = [ip \in Identities |-> EmptyMap]
    /\ retryAt = [ip \in Identities |-> -1]
    /\ senders = [ip \in Identities |-> {}]
    /\ lastCheck = NoCheck
    /\ ocr = [c \in Calls |-> IdleCall]
    /\ home = InitialHome
    /\ receiptContext = InitialContext
    /\ processRuns = [r \in Calls |-> IdleRun]
    /\ uploader = InitialUploader
    /\ preview = InitialPreview

----------------------------------------------------------------------------
(* Actions *)

\* A request is given the lowest slot that is free.
FreeSlot(s) ==
    /\ slots[s].pc \in {"idle", "done"}
    /\ \A r \in Slots : r < s => slots[r].pc \notin {"idle", "done"}

\* Faulty variant of Receive: without the key the rate check is made all
\* the same, before the configuration error is answered.
ReceiveCheckingFirst(s, hdr, request) ==
    /\ UNCHANGED clientVars
    /\ FreeSlot(s)
    /\ started' = started + 1
    /\ LET clientIp == ClientIp(hdr)
           checked == CheckRateLimit(requestLog, clientIp, now)
           rateLimitResult == checked.result
           solo == CheckRateLimit(soloLog[clientIp], clientIp, now)
           entry == [IdleSlot EXCEPT !.hdr = hdr, !.request = request,
                        !.clientIp = clientIp,
                        !.rateLimitResult = rateLimitResult,
                        !.stages = <<"config", "rate">>]
       IN  /\ requestLog' = checked.log
           /\ IF KeyMissing(apiKey)
              THEN /\ slots' = [slots EXCEPT ![s] =
                          [IdleSlot EXCEPT !.pc = "done", !.hdr = hdr,
                              !.request = request, !.stages = <<"config">>,
                              !.logged = <<"OPENAI_API_KEY is not configured">>,
                              !.response = ErrorResponse(500, MsgConfig, NoHeaders)]]
                   /\ UNCHANGED <<admitted, soloLog, retryAt, senders, lastCheck>>
              ELSE /\ soloLog' = [soloLog EXCEPT ![clientIp] = solo.log]
                   /\ lastCheck' = [made |-> TRUE, ip |-> clientIp, at |-> now,
                                    result |-> rateLimitResult,
                                    before |-> Len(admitted[clientIp]),
                                    prevRetryAt |-> retryAt[clientIp],
                                    solo |-> solo.result]
                   /\ IF ~rateLimitResult.allowed
                      THEN /\ slots' = [slots EXCEPT ![s] =
                                  [entry EXCEPT !.pc = "done",
                                      !.response = RateLimitedResponse(rateLimitResult)]]
                           /\ retryAt' = [retryAt EXCEPT ![clientIp] =
                                  now + rateLimitResult.retryAfterMs]
                           /\ UNCHANGED <<admitted, senders>>
                      ELSE /\ slots' = [slots EXCEPT ![s] =
                                  [entry EXCEPT !.pc = "awaitBody"]]
                           /\ retryAt' = [retryAt EXCEPT ![clientIp] = -1]
                           /\ admitted' = [admitted EXCEPT ![clientIp] =
                                  Append(@, now)]
                           /\ senders' = [senders EXCEPT ![clientIp] =
                                  @ \cup {Peer(hdr)}]
    /\ UNCHANGED <<now, ticks, apiKey, uuidCount>>

\* POST from its entry to its first await or its return: steps 1 and 2.
Receive(s, hdr, request) ==
    /\ UNCHANGED clientVars
    /\ FreeSlot(s)
    /\ started' = started + 1
    /\ IF KeyMissing(apiKey)
       THEN /\ slots' = [slots EXCEPT ![s] =
                   [IdleSlot EXCEPT !.pc = "done", !.hdr = hdr,
                       !.request = request, !.stages = <<"config">>,
                       !.logged = <<"OPENAI_API_KEY is not configured">>,
                       !.response = ErrorResponse(500, MsgConfig, NoHeaders)]]
            /\ UNCHANGED <<requestLog, admitted, soloLog, retryAt, senders,
                           lastCheck>>
       ELSE LET clientIp == ClientIp(hdr)
                checked == CheckRateLimit(requestLog, clientIp, now)
                rateLimitResult == checked.result
                solo == CheckRateLimit(soloLog[clientIp], clientIp, now)
                entry == [IdleSlot EXCEPT !.hdr = hdr, !.request = request,
                             !.clientIp = clientIp,
                             !.rateLimitResult = rateLimitResult,
                             !.stages = <<"config", "rate">>]
            IN  /\ requestLog' = checked.log
                /\ soloLog' = [soloLog EXCEPT ![clientIp] = solo.log]
                /\ lastCheck' = [made |-> TRUE, ip |-> clientIp, at |-> now,
                                 result |-> rateLimitResult,
                                 before |-> Len(admitted[clientIp]),
                                 prevRetryAt |-> retryAt[clientIp],
                                 solo |-> solo.result]
                /\ IF ~rateLimitResult.allowed
                   THEN /\ slots' = [slots EXCEPT ![s] =
                               [entry EXCEPT !.pc = "done",
                                   !.response = RateLimitedResponse(rateLimitResult)]]
                        /\ retryAt' = [retryAt EXCEPT ![clientIp] =
                               now + rateLimitResult.retryAfterMs]
                        /\ UNCHANGED <<admitted, senders>>
                   ELSE /\ slots' = [slots EXCEPT ![s] =
                               [entry EXCEPT !.pc = "awaitBody"]]
                        /\ retryAt' = [retryAt EXCEPT ![clientIp] = -1]
                        /\ admitted' = [admitted EXCEPT ![clientIp] =
                               Append(@, now)]
                        /\ senders' = [senders EXCEPT ![clientIp] =
                               @ \cup {Peer(hdr)}]
    /\ UNCHANGED <<now, ticks, apiKey, uuidCount>>

\* Faulty variant of Validate: a request the validation refuses gives its
\* place in the window back.
ValidateRefunding(s) ==
    /\ UNCHANGED clientVars
    /\ slots[s].pc = "awaitBody"
    /\ LET validated == ValidateBody(slots[s].request)
       IN  /\ slots' = [slots EXCEPT ![s] =
                  IF validated.ok
                  THEN [@ EXCEPT !.pc = "awaitParse",
                           !.stages = @ \o <<"validate", "extract">>,
                           !.adapterArg = JStr(validated.trimmedText),
                           !.adapterCalls = @ + 1]
                  ELSE [@ EXCEPT !.pc = "done",
                           !.stages = Append(@, "validate"),
                           !.response = validated.response]]
           /\ requestLog' =
                  IF validated.ok \/ slots[s].clientIp \notin DOMAIN requestLog
                  THEN requestLog
                  ELSE [requestLog EXCEPT ![slots[s].clientIp] = DropLast(@)]
    /\ UNCHANGED <<now, ticks, apiKey, started, uuidCount,
                   admitted, soloLog, retryAt, senders, lastCheck>>

\* POST resumed with the outcome of request.json(), to its second await or
\* its return: step 3 and the call of parseReceiptText.
Validate(s) ==
    /\ UNCHANGED clientVars
    /\ slots[s].pc = "awaitBody"
    /\ LET validated == ValidateBody(slots[s].request)
       IN  slots' = [slots EXCEPT ![s] =
               IF validated.ok
               THEN [@ EXCEPT !.pc = "awaitParse",
                        !.stages = @ \o <<"validate", "extract">>,
                        !.adapterArg = JStr(validated.trimmedText),
                        !.adapterCalls = @ + 1]
               ELSE [@ EXCEPT !.pc = "done",
                        !.stages = Append(@, "validate"),
                        !.response = validated.response]]
    /\ UNCHANGED <<now, ticks, requestLog, apiKey, started, uuidCount,
                   admitted, soloLog, retryAt, senders, lastCheck>>

\* Faulty variant of Respond: when parseReceiptText throws, it is called a
\* second time before the failure is reported.
RespondRetrying(s, completion) ==
    /\ UNCHANGED clientVars
    /\ slots[s].pc = "awaitParse"
    /\ LET outcome == ParseReceiptText(slots[s].adapterArg, completion, uuidCount)
       IN  /\ slots' = [slots EXCEPT ![s] =
                   IF outcome.k = "throws" /\ @.adapterCalls < 2
                   THEN [@ EXCEPT !.adapterCalls = @ + 1]
                   ELSE [@ EXCEPT !.pc = "done",
                            !.completion = completion,
                            !.response = ExtractionResponse(outcome),
                            !.logged = IF outcome.k = "throws"
                                       THEN <<"Failed to parse receipt:">> \o outcome.error
                                       ELSE <<>>]]
           /\ uuidCount' = outcome.drawn
    /\ UNCHANGED <<now, ticks, requestLog, apiKey, started, admitted,
                   soloLog, retryAt, senders, lastCheck>>

\* parseReceiptText resumed with the outcome of the completions call, and
\* POST resumed with what it returned or threw: step 4.
Respond(s, completion) ==
    /\ UNCHANGED clientVars
    /\ slots[s].pc = "awaitParse"
    /\ LET outcome == ParseReceiptText(slots[s].adapterArg, completion, uuidCount)
       IN  /\ slots' = [slots EXCEPT ![s] =
                   [@ EXCEPT !.pc = "done",
                        !.completion = completion,
                        !.response = ExtractionResponse(outcome),
                        !.logged = IF outcome.k = "throws"
                                   THEN <<"Failed to parse receipt:">> \o outcome.error
                                   ELSE <<>>]]
           /\ uuidCount' = outcome.drawn
    /\ UNCHANGED <<now, ticks, requestLog, apiKey, started, admitted,
                   soloLog, retryAt, senders, lastCheck>>

\* The environment variable is removed while the server runs, as the route
\* test of the missing key does.
DeleteKey ==
    /\ UNCHANGED clientVars
    /\ apiKey # Undefined
    /\ apiKey' = Undefined
    /\ UNCHANGED <<now, ticks, requestLog, slots, started, uuidCount, admitted,
                   soloLog, retryAt, senders, lastCheck>>

\* The environment variable is set while the server runs, as the route
\* tests do before each test.
SetKey ==
    /\ UNCHANGED clientVars
    /\ apiKey # TestKey
    /\ apiKey' = TestKey
    /\ UNCHANGED <<now, ticks, requestLog, slots, started, uuidCount, admitted,
                   soloLog, retryAt, senders, lastCheck>>

\* resetRateLimiter, as a test suite calls it between its tests.  The
\* histories of the admitted requests begin anew; retryAt keeps what the
\* last rejections said.
ResetRateLimiter ==
    /\ UNCHANGED clientVars
    /\ requestLog # EmptyMap
    /\ requestLog' = Cleared(requestLog)
    /\ admitted' = [ip \in Identities |-> <<>>]
    /\ soloLog' = [ip \in Identities |-> EmptyMap]
    /\ senders' = [ip \in Identities |-> {}]
    /\ lastCheck' = NoCheck
    /\ UNCHANGED <<now, ticks, apiKey, slots, started, uuidCount, retryAt>>

\* Time passes.
Tick(d) ==
    /\ UNCHANGED clientVars
    /\ ticks < MaxTicks
    /\ now' = now + d
    /\ ticks' = ticks + 1
    /\ UNCHANGED <<requestLog, apiKey, slots, started, uuidCount, admitted,
                   soloLog, retryAt, senders, lastCheck>>

----------------------------------------------------------------------------
(* The handler under concurrent requests of every kind *)

\* One body of each kind the validation tells apart
SomeBodies ==
    {BodyThrows, Body(JObj(FALSE, Undefined)), TextBody(<<>>),
     TextBody(<<Run("ws", 3)>>), TextBody(ReceiptText),
     TextBody(<<Run("nw", MAX_TEXT_LENGTH + 1)>>)}

ReceiveAny ==
    \E s \in Slots, hdr \in Headers, request \in SomeBodies :
        started < MaxRequests /\ Receive(s, hdr, request)

ValidateAny == \E s \in Slots : Validate(s)

\* The completions call rejecting either way, or resolving with no candidate
\* or with the empty one
SomeCompletions ==
    {Rejects(m) : m \in UpstreamMessages}
        \cup {Resolves(Null), Resolves(EmptyCandidate)}

RespondSome ==
    \E s \in Slots, completion \in SomeCompletions : Respond(s, completion)

TickAny == \E d \in TickSteps : Tick(d)

\* The clock advances by just under a window
LongTick == Tick(WINDOW_MS - 1)

Next == ReceiveAny \/ ValidateAny \/ RespondSome \/ LongTick

Spec == Init /\ [][Next]_vars

----------------------------------------------------------------------------
(* The handler under one request at a time, of every body and outcome *)

NoneInFlight == \A s \in Slots : slots[s].pc \in {"idle", "done"}

RespondAny == \E s \in Slots, completion \in Completions : Respond(s, completion)

SerialReceive ==
    \E s \in Slots, hdr \in Headers, request \in Bodies :
        started < MaxSerial /\ NoneInFlight /\ Receive(s, hdr, request)

NextSerial == SerialReceive \/ ValidateAny \/ RespondAny \/ LongTick

SpecSerial == Init /\ [][NextSerial]_vars

----------------------------------------------------------------------------
(* The handler under load: valid requests of one identity, two at a time, *)
(* the adapter always succeeding                                          *)

InitLoad == Init /\ apiKey = TestKey

LoadReceive ==
    \E s \in Slots :
        started < MaxLoad /\ Receive(s, Header("1.2.3.4"), TextBody(ReceiptText))

LoadRespond == \E s \in Slots : Respond(s, Resolves(EmptyCandidate))

NextLoad == LoadReceive \/ ValidateAny \/ LoadRespond \/ TickAny

SpecLoad == InitLoad /\ [][NextLoad]_vars

----------------------------------------------------------------------------
(* The handler losing and regaining its credential: requests of one valid  *)
(* body and one identity, one at a time                                    *)

NextRestore ==
    \/ \E s \in Slots :
           /\ started < MaxLoad
           /\ NoneInFlight
           /\ Receive(s, Header("1.2.3.4"), TextBody(ReceiptText))
    \/ ValidateAny
    \/ LoadRespond
    \/ DeleteKey
    \/ SetKey
    \/ LongTick

SpecRestore == Init /\ [][NextRestore]_vars

----------------------------------------------------------------------------
(* The handler under requests of one identity, one at a time, that all     *)
(* fail: the body is no JSON, or has no text, or the text is valid and the *)
(* extraction fails                                                        *)

NextFail ==
    \/ \E s \in Slots :
           \E request \in {BodyThrows, Body(JObj(FALSE, Undefined)),
                           TextBody(ReceiptText)} :
               /\ started < MaxLoad
               /\ NoneInFlight
               /\ Receive(s, Header("1.2.3.4"), request)
    \/ ValidateAny
    \/ \E s \in Slots :
           Respond(s, Rejects(<<"connect ETIMEDOUT at ", "/app/lib/openai.ts:42">>))
    \/ TickAny

SpecFail == InitLoad /\ [][NextFail]_vars

----------------------------------------------------------------------------
(* The handler under valid requests of two identities in any order, one at *)
(* a time, the clock advancing by just under a window                      *)

PairReceive ==
    \E s \in Slots, hdr \in Headers :
        /\ started < MaxLoad
        /\ NoneInFlight
        /\ Receive(s, hdr, TextBody(ReceiptText))

NextPair == PairReceive \/ ValidateAny \/ LoadRespond \/ LongTick

SpecPair == InitLoad /\ [][NextPair]_vars

----------------------------------------------------------------------------
(* The scenario of the route test "returns 429 after too many requests":   *)
(* valid requests without a forwarded address, each awaited before the     *)
(* next is sent, all within one window                                     *)

SeqReceive ==
    \E s \in Slots :
        /\ started < MaxSeq
        /\ NoneInFlight
        /\ Receive(s, NoHeader, TextBody(ReceiptText))

SeqTick == \E d \in TickSteps : now + d < WINDOW_MS /\ Tick(d)

NextSeq == SeqReceive \/ ValidateAny \/ LoadRespond \/ SeqTick

SpecSeq == InitLoad /\ [][NextSeq]_vars

----------------------------------------------------------------------------
(* The handler losing its credential: requests of one identity and of every *)
(* kind of body, one at a time, the key removed at any moment               *)

ConfigReceive ==
    \E s \in Slots, request \in SomeBodies :
        /\ started < MaxLoad
        /\ NoneInFlight
        /\ Receive(s, Header("1.2.3.4"), request)

NextConfig == ConfigReceive \/ ValidateAny \/ LoadRespond \/ DeleteKey \/ LongTick

SpecConfig == Init /\ [][NextConfig]_vars

----------------------------------------------------------------------------
(* The handler under valid requests of clients that connect directly and of *)
(* one that is forwarded, one at a time                                     *)

SharedReceive ==
    \E s \in Slots, hdr \in DirectHeaders \cup {Header("1.2.3.4")} :
        /\ started < MaxLoad
        /\ NoneInFlight
        /\ hdr.present => Len(admitted[hdr.value]) < MaxForwarded
        /\ Receive(s, hdr, TextBody(ReceiptText))

NextShared == SharedReceive \/ ValidateAny \/ LoadRespond \/ LongTick

SpecShared == InitLoad /\ [][NextShared]_vars

----------------------------------------------------------------------------
(* The handler in a test suite: valid requests with and without a forwarded *)
(* address, one at a time, the limiter reset at any moment between them     *)

ResetReceive ==
    \E s \in Slots, hdr \in Headers :
        /\ started < MaxLoad
        /\ NoneInFlight
        /\ hdr.present => Len(admitted[hdr.value]) < MaxForwarded
        /\ Receive(s, hdr, TextBody(ReceiptText))

NextReset ==
    ResetReceive \/ ValidateAny \/ LoadRespond \/ ResetRateLimiter \/ LongTick

SpecReset == InitLoad /\ [][NextReset]_vars

----------------------------------------------------------------------------
(* extractText called as its tests call it: one call after the other, with *)
(* and without a progress callback, the engine logging what it likes       *)

NextOcr ==
    \/ \E file \in {JpegFile, TextFile}, hasOnProgress \in BOOLEAN :
           /\ \A b \in Calls : ocr[b].pc \in {"idle", "settled"}
           /\ ExtractText(1, file, hasOnProgress)
           /\ UNCHANGED pageVars
    \/ \E c \in Calls, info \in LogInfos : Log(c, info) /\ UNCHANGED pageVars
    \/ \E c \in Calls : WorkerCreated(c) /\ UNCHANGED pageVars
    \/ \E c \in Calls, error \in OcrErrors :
           WorkerFailed(c, error) /\ UNCHANGED pageVars
    \/ \E c \in Calls, recognized \in Recognitions :
           RecognizeDone(c, recognized) /\ UNCHANGED pageVars
    \/ \E c \in Calls, error \in OcrErrors :
           RecognizeFailed(c, error) /\ UNCHANGED pageVars
    \/ \E c \in Calls : TerminateDone(c) /\ UNCHANGED pageVars
    \/ \E c \in Calls, error \in OcrErrors :
           TerminateFailed(c, error) /\ UNCHANGED pageVars

SpecOcr == Init /\ [][NextOcr]_vars

----------------------------------------------------------------------------
(* The upload page in the browser: the user picks files and clicks the     *)
(* Process button as the render allows, the engine and the network answer  *)
(* as they like                                                            *)

\* NextResponse.json(receipt) of the route, the items with their ids
WalmartReceipt ==
    [WalmartCandidate EXCEPT !.items = EnrichItems(WalmartCandidate.items, 0)]

\* What fetch can resolve with: the responses of the route, and those of a
\* gateway before it, with a JSON body without an error member or with a
\* body that is no JSON
PageResponses ==
    {OkResponse(WalmartReceipt),
     OkResponse(EmptyCandidate),
     ErrorResponse(400, MsgMissingText, NoHeaders),
     ErrorResponse(500, MsgParseFailed, NoHeaders),
     [status |-> 503, body |-> [message |-> <<"Service Unavailable">>],
      headers |-> NoHeaders],
     [status |-> 502, body |-> NotJson, headers |-> NoHeaders]}

\* The engine's promises settle only for a run that awaits extractText;
\* fetch rejects with a TypeError, response.json() with a SyntaxError.
NextPage ==
    \/ \E file \in {JpegFile, PngFile, TextFile} :
           /\ file.type \in VALID_TYPES => preview.created < MaxPicks
           /\ HandleFileChange(file)
    \/ \E r \in Calls : HandleProcess(r)
    \/ \E r \in Calls :
           \E info \in {LogInfo("initializing api", 100),
                        LogInfo("recognizing text", 50)} : OnProgress(r, info)
    \/ \E r \in Calls :
           /\ processRuns[r].pc = "ocr"
           /\ \/ WorkerCreated(r)
              \/ \E error \in OcrErrors : WorkerFailed(r, error)
              \/ \E recognized \in Recognitions : RecognizeDone(r, recognized)
              \/ \E error \in OcrErrors : RecognizeFailed(r, error)
              \/ TerminateDone(r)
              \/ \E error \in OcrErrors : TerminateFailed(r, error)
           /\ UNCHANGED pageVars
    \/ \E r \in Calls : OcrResolved(r)
    \/ \E r \in Calls : OcrRejected(r)
    \/ \E r \in Calls, response \in PageResponses : FetchResponded(r, response)
    \/ \E r \in Calls : FetchFailed(r, JError(<<"Failed to fetch">>))
    \/ \E r \in Calls : JsonParsed(r)
    \/ \E r \in Calls : JsonFailed(r, JError(<<"Unexpected token < in JSON">>))

SpecPage == Init /\ [][NextPage]_vars

----------------------------------------------------------------------------
(* The upload page visited, left and visited again, the user picking files *)

NextPreview ==
    \/ \E file \in {JpegFile, PngFile, ImageFile("other.jpg", "image/jpeg"),
                     TextFile, ImageFile("scan.pdf", "application/pdf")} :
           /\ file.type \in VALID_TYPES => preview.created < MaxUrls
           /\ HandleFileChange(file)
    \/ Unmount

SpecPreview == Init /\ [][NextPreview]_vars

----------------------------------------------------------------------------
(* Properties of the rate limiter under load (SpecLoad) *)

InFlight(s) == slots[s].pc \in {"awaitBody", "awaitParse"}

\* The admitted requests of the last checked identity that its check found
\* less than WINDOW_MS old, counted from the history, not from requestLog
AdmittedInWindowAtLastCheck ==
    LET h == admitted[lastCheck.ip]
    IN  Cardinality({i \in 1..lastCheck.before : lastCheck.at - h[i] < WINDOW_MS})

\* C1: once MAX_REQUESTS requests of an identity have been admitted within a
\* WINDOW_MS-long interval, the next request of the identity inside that
\* interval is rejected, with retryAfterMs > 0.
C1_SlidingWindowBound ==
    (lastCheck.made /\ AdmittedInWindowAtLastCheck >= MAX_REQUESTS)
        => /\ ~lastCheck.result.allowed
           /\ lastCheck.result.retryAfterMs > 0

\* A rejection after the window has slid: more than MAX_REQUESTS requests had
\* been admitted before, MAX_REQUESTS of them still inside the window.
C1_Witness ==
    /\ lastCheck.made
    /\ lastCheck.before > MAX_REQUESTS
    /\ AdmittedInWindowAtLastCheck >= MAX_REQUESTS
    /\ ~lastCheck.result.allowed

\* C2: the request of an identity that follows a rejection of that identity
\* and is made once the rejection's retryAfterMs has elapsed is admitted.
C2_RetryAfterSufficient ==
    (lastCheck.made /\ lastCheck.prevRetryAt >= 0
        /\ lastCheck.at >= lastCheck.prevRetryAt)
        => lastCheck.result.allowed

\* A request made exactly retryAfterMs after its identity's rejection
C2_Witness ==
    /\ lastCheck.made
    /\ lastCheck.prevRetryAt >= 0
    /\ lastCheck.at = lastCheck.prevRetryAt
    /\ lastCheck.result.allowed

\* C5: with requests of one identity in flight together, the admitted
\* requests of the identity that lie less than WINDOW_MS apart never number
\* more than MAX_REQUESTS: any admitted request and the MAX_REQUESTS-th
\* admitted after it are at least WINDOW_MS apart.
C5_AtomicAdmission ==
    \A ip \in Identities :
        \A i \in 1..Len(admitted[ip]) :
            i + MAX_REQUESTS <= Len(admitted[ip])
                => admitted[ip][i + MAX_REQUESTS] - admitted[ip][i] >= WINDOW_MS

\* A request rejected while another of its identity is in flight, the
\* identity having been admitted more than MAX_REQUESTS times
C5_Witness ==
    /\ InFlight(1)
    /\ slots[2].pc = "done"
    /\ slots[2].clientIp = slots[1].clientIp
    /\ slots[2].response.status = 429
    /\ lastCheck.made
    /\ ~lastCheck.result.allowed
    /\ Len(admitted[slots[1].clientIp]) > MAX_REQUESTS

\* The number a string of decimal digits writes
DigitValue(c) == CHOOSE d \in 0..9 : Digit(d) = c

RECURSIVE DigitsToNum(_)
DigitsToNum(ds) ==
    IF ds = <<>> THEN 0
    ELSE 10 * DigitsToNum(DropLast(ds)) + DigitValue(ds[Len(ds)])

IsDecimal(ds) ==
    /\ ds # <<>>
    /\ \A i \in 1..Len(ds) : \E d \in 0..9 : Digit(d) = ds[i]
    /\ Len(ds) > 1 => ds[1] # "0"

Rejected(s) ==
    /\ slots[s].pc # "idle"
    /\ slots[s].rateLimitResult # Undefined
    /\ ~slots[s].rateLimitResult.allowed

\* C8: every rate-limited response has status 429 and a Retry-After header
\* that is retryAfterMs rounded up to whole seconds: a decimal integer h with
\* (h - 1) * 1000 < retryAfterMs <= h * 1000 and 1 <= h <= WINDOW_MS / 1000.
C8_RetryAfterHeader ==
    \A s \in Slots :
        Rejected(s) =>
            /\ slots[s].pc = "done"
            /\ slots[s].response.status = 429
            /\ DOMAIN slots[s].response.headers = {"Retry-After"}
            /\ IsDecimal(slots[s].response.headers["Retry-After"])
            /\ LET h == DigitsToNum(slots[s].response.headers["Retry-After"])
                   r == slots[s].rateLimitResult.retryAfterMs
               IN  /\ h * 1000 >= r
                   /\ (h - 1) * 1000 < r
                   /\ h >= 1
                   /\ h * 1000 <= WINDOW_MS

\* A rate-limited response whose retryAfterMs is no whole number of seconds
C8_Witness ==
    \E s \in Slots :
        /\ Rejected(s)
        /\ slots[s].rateLimitResult.retryAfterMs % 1000 # 0
        /\ slots[s].response.headers["Retry-After"] = <<"6", "0">>

----------------------------------------------------------------------------
(* Independence of identities (SpecPair) *)

\* C3: the decisions taken for an identity, and the timestamps stored for
\* it, are those of a limiter that serves this identity alone: every result
\* of checkRateLimit equals the result the identity's own limiter gives, and
\* the identity's entry of requestLog equals that limiter's.
C3_Independence ==
    /\ lastCheck.made => lastCheck.result = lastCheck.solo
    /\ \A ip \in Identities :
          /\ ip \in DOMAIN requestLog <=> ip \in DOMAIN soloLog[ip]
          /\ ip \in DOMAIN requestLog => requestLog[ip] = soloLog[ip][ip]

\* One identity exhausted and rejected, the other admitted after that
C3_Witness ==
    \E a, b \in Identities :
        /\ a # b
        /\ Len(admitted[a]) >= MAX_REQUESTS
        /\ retryAt[a] >= 0
        /\ lastCheck.made
        /\ lastCheck.ip = b
        /\ lastCheck.at < retryAt[a]
        /\ lastCheck.result.allowed

----------------------------------------------------------------------------
(* The twelve-request scenario (SpecSeq) *)

\* C7: of valid requests of one identity sent one after the other within
\* one window, the adapter succeeding, the first MAX_REQUESTS are answered
\* 200 and every later one 429 with a Retry-After of at least 1.
C7_TenThenRejected ==
    \A s \in Slots :
        slots[s].pc = "done" =>
            IF started <= MAX_REQUESTS
            THEN slots[s].response.status = 200
            ELSE /\ slots[s].response.status = 429
                 /\ "Retry-After" \in DOMAIN slots[s].response.headers
                 /\ IsDecimal(slots[s].response.headers["Retry-After"])
                 /\ DigitsToNum(slots[s].response.headers["Retry-After"]) > 0

\* The twelfth request answered
C7_Witness ==
    /\ started = MAX_REQUESTS + 2
    /\ slots[1].pc = "done"
    /\ slots[1].response.status = 429
    /\ Len(admitted["unknown"]) = MAX_REQUESTS

----------------------------------------------------------------------------
(* Stage order and sanitization (Spec) *)

StageOrder == <<"config", "rate", "validate", "extract">>

IsPrefix(a, b) == Len(a) <= Len(b) /\ SubSeq(b, 1, Len(a)) = a

Ran(s, stage) == \E i \in 1..Len(slots[s].stages) : slots[s].stages[i] = stage

CredentialPresent == apiKey.t = "string" /\ apiKey.s # <<>>

\* The body is JSON with a string text whose trimmed length is 1..MAX_TEXT_LENGTH
PassesValidation(request) ==
    /\ request.k = "resolves"
    /\ request.body.t = "object"
    /\ request.body.hasText
    /\ request.body.text.t = "string"
    /\ StrLen(Trim(request.body.text.s)) \in 1..MAX_TEXT_LENGTH

\* C4: the stages of a request run in the order configuration check, rate
\* check, validation, extraction, and parseReceiptText is called only for a
\* request whose credential is present, whose rate check allowed it and
\* whose body passed the validation.
C4_StageOrder ==
    \A s \in Slots :
        /\ IsPrefix(slots[s].stages, StageOrder)
        /\ slots[s].adapterCalls > 0 <=> Ran(s, "extract")
        /\ Ran(s, "extract") =>
              /\ CredentialPresent
              /\ slots[s].rateLimitResult # Undefined
              /\ slots[s].rateLimitResult.allowed
              /\ PassesValidation(slots[s].request)

\* A request that reached the adapter while another was refused by the
\* validation
C4_Witness ==
    \E s, r \in Slots :
        /\ slots[s].stages = StageOrder
        /\ slots[r].pc = "done"
        /\ slots[r].stages = <<"config", "rate", "validate">>
        /\ slots[r].response.status = 400

\* The adapter threw for the request of slot s: POST logged the error
AdapterThrew(s) ==
    /\ slots[s].pc = "done"
    /\ slots[s].logged # <<>>
    /\ slots[s].logged[1] = "Failed to parse receipt:"

ThrownMessage(s) == Tail(slots[s].logged)

Pieces(str) == {str[i] : i \in 1..Len(str)}

\* C6: a 500 response carries one of the two fixed messages; two requests
\* that differ only in the message of the error the adapter threw get the
\* same response; no piece of that message and no piece of the credential
\* is in the response. (A message is its sequence of pieces; the pieces of
\* the thrown messages include a key and a path.)
C6_Sanitization ==
    /\ \A s \in Slots :
          (slots[s].pc = "done" /\ slots[s].response.status = 500) =>
              /\ slots[s].response.body.error \in {MsgConfig, MsgParseFailed}
              /\ slots[s].response.headers = NoHeaders
              /\ AdapterThrew(s) =>
                    Pieces(slots[s].response.body.error)
                        \cap (Pieces(ThrownMessage(s)) \cup Pieces(apiKey.s)) = {}
    /\ \A s, r \in Slots :
          (AdapterThrew(s) /\ AdapterThrew(r) /\ slots[s].hdr = slots[r].hdr
              /\ slots[s].request = slots[r].request)
              => slots[s].response = slots[r].response

\* Two requests that differ only in the message the adapter threw
C6_Witness ==
    /\ AdapterThrew(1)
    /\ AdapterThrew(2)
    /\ slots[1].hdr = slots[2].hdr
    /\ slots[1].request = slots[2].request
    /\ ThrownMessage(1) # ThrownMessage(2)
    /\ "sk-abc123" \in Pieces(ThrownMessage(1))
    /\ slots[1].response.status = 500

----------------------------------------------------------------------------
(* Validation failures (Spec, SpecSerial) *)

\* The validation refused the request of slot s
FailedValidation(s) ==
    /\ slots[s].pc = "done"
    /\ slots[s].stages = <<"config", "rate", "validate">>

HasStringText(request) ==
    /\ request.k = "resolves"
    /\ request.body.t = "object"
    /\ request.body.hasText
    /\ request.body.text.t = "string"

\* The failure kind of a request as the specification lists the kinds: a
\* string that is empty after trimming, the empty string too, is EMPTY_TEXT.
ListedKind(request) ==
    IF request.k = "throws" THEN "MALFORMED_BODY"
    ELSE IF ~HasStringText(request) THEN "MISSING_OR_INVALID_TEXT"
    ELSE IF StrLen(Trim(request.body.text.s)) = 0 THEN "EMPTY_TEXT"
    ELSE IF StrLen(Trim(request.body.text.s)) > MAX_TEXT_LENGTH THEN "TEXT_TOO_LONG"
    ELSE "NONE"

\* The failure kind with the empty string counted as missing text
HandlerKind(request) ==
    IF HasStringText(request) /\ request.body.text.s = <<>>
    THEN "MISSING_OR_INVALID_TEXT"
    ELSE ListedKind(request)

\* The error message that stands for each code
MessageOf(code) ==
    CASE code = "MALFORMED_BODY" -> MsgInvalidBody
      [] code = "MISSING_OR_INVALID_TEXT" -> MsgMissingText
      [] code = "EMPTY_TEXT" -> MsgEmptyText
      [] code = "TEXT_TOO_LONG" -> MsgTooLong

\* C9 as stated: no two failure kinds (malformed body, missing or non-string
\* text, empty after trimming, too long) yield the same error.
C9_AsStated ==
    \A s, r \in Slots :
        (FailedValidation(s) /\ FailedValidation(r)
            /\ ListedKind(slots[s].request) # ListedKind(slots[r].request))
            => slots[s].response.body.error # slots[r].response.body.error

\* C9, amended: a request the validation refuses is answered 400 with the
\* fixed message of its kind, the kinds being malformed body; missing,
\* non-string or empty-string text; non-empty text of whitespace only;
\* trimmed text longer than MAX_TEXT_LENGTH; and no two kinds yield the same
\* message.
C9_DistinctErrors ==
    /\ \A s \in Slots :
          FailedValidation(s) =>
              /\ HandlerKind(slots[s].request) # "NONE"
              /\ slots[s].response =
                    ErrorResponse(400, MessageOf(HandlerKind(slots[s].request)),
                                  NoHeaders)
    /\ \A s, r \in Slots :
          (FailedValidation(s) /\ FailedValidation(r))
              => (HandlerKind(slots[s].request) = HandlerKind(slots[r].request)
                    <=> slots[s].response.body.error = slots[r].response.body.error)

\* The empty string and a whitespace-only string refused with different
\* messages
C9_Witness ==
    /\ FailedValidation(1)
    /\ FailedValidation(2)
    /\ slots[1].request = TextBody(<<>>)
    /\ slots[2].request = TextBody(<<Run("ws", 3)>>)
    /\ slots[1].response.body.error = MsgMissingText
    /\ slots[2].response.body.error = MsgEmptyText

\* The text is a string with nothing left after trimming
EmptyAfterTrim(request) ==
    HasStringText(request) /\ StrLen(Trim(request.body.text.s)) = 0

\* C10 as stated: every text that is empty after trimming, the empty string
\* too, is refused with the EMPTY_TEXT error.
C10_AsStated ==
    \A s \in Slots :
        (Ran(s, "validate") /\ EmptyAfterTrim(slots[s].request))
            => /\ slots[s].pc = "done"
               /\ slots[s].response.body.error = MsgEmptyText

\* C10, amended: every non-empty text of whitespace only is refused, 400,
\* with the EMPTY_TEXT error; the empty string is refused, 400, with the
\* MISSING_OR_INVALID_TEXT error.
C10_EmptyText ==
    \A s \in Slots :
        (Ran(s, "validate") /\ EmptyAfterTrim(slots[s].request))
            => /\ slots[s].pc = "done"
               /\ slots[s].adapterCalls = 0
               /\ slots[s].response =
                     ErrorResponse(400,
                         IF slots[s].request.body.text.s = <<>>
                         THEN MsgMissingText ELSE MsgEmptyText,
                         NoHeaders)

\* A text of more than MAX_TEXT_LENGTH whitespace characters refused as empty
C10_Witness ==
    \E s \in Slots :
        /\ FailedValidation(s)
        /\ slots[s].request = TextBody(<<Run("ws", MAX_TEXT_LENGTH + 1)>>)
        /\ slots[s].response.body.error = MsgEmptyText

----------------------------------------------------------------------------
(* Totality of the validation and the length bound (SpecSerial) *)

\* The validation refused the request of slot s with this message
RefusedWith(s, message) ==
    /\ FailedValidation(s)
    /\ slots[s].adapterCalls = 0
    /\ slots[s].response = ErrorResponse(400, message, NoHeaders)

\* The validation passed the request of slot s: parseReceiptText was called
\* with the trimmed text
Passed(s) ==
    /\ Ran(s, "extract")
    /\ slots[s].adapterCalls = 1
    /\ slots[s].adapterArg = JStr(Trim(slots[s].request.body.text.s))
    /\ slots[s].pc = "done" => slots[s].response.status \in {200, 500}

\* The text is a string of 1..MAX_TEXT_LENGTH characters, one of them at
\* least no whitespace
ShortWithContent(request) ==
    /\ HasStringText(request)
    /\ StrLen(request.body.text.s) \in 1..MAX_TEXT_LENGTH
    /\ \E i \in 1..Len(request.body.text.s) : request.body.text.s[i].c = "nw"

\* C11 as stated: every malformed input is refused, 400, with the error of
\* its kind, a text that is empty after trimming (the empty string too) with
\* the EMPTY_TEXT error.
C11_AsStated ==
    \A s \in Slots :
        (Ran(s, "validate") /\ ListedKind(slots[s].request) # "NONE")
            => RefusedWith(s, MessageOf(ListedKind(slots[s].request)))

\* C11, amended: every request that reaches the validation is either refused,
\* 400, with the message of its kind, or passed on to parseReceiptText with
\* its trimmed text.  Refused are: a body that is no JSON (MALFORMED_BODY); a
\* body that is no object, has no text, has a text that is no string or has
\* the empty string as text (MISSING_OR_INVALID_TEXT); a non-empty text of
\* whitespace only (EMPTY_TEXT); a text whose trimmed length is above
\* MAX_TEXT_LENGTH (TEXT_TOO_LONG).  Every string of 1..MAX_TEXT_LENGTH
\* characters with a non-whitespace character passes.
C11_ValidatorTotality ==
    \A s \in Slots :
        Ran(s, "validate") =>
            /\ IF HandlerKind(slots[s].request) = "NONE"
               THEN Passed(s)
               ELSE RefusedWith(s, MessageOf(HandlerKind(slots[s].request)))
            /\ ShortWithContent(slots[s].request) => Passed(s)

\* A body that is JSON but no object, refused as missing text
C11_Witness ==
    \E s \in Slots :
        /\ slots[s].request = Body(JNum(5))
        /\ RefusedWith(s, MsgMissingText)

\* The number of characters of a string from its first to its last
\* non-whitespace character
ContentLength(str) ==
    LET content == {i \in 1..Len(str) : str[i].c = "nw"}
    IN  IF content = {} THEN 0
        ELSE LET first == CHOOSE i \in content : \A j \in content : i <= j
                 last == CHOOSE i \in content : \A j \in content : j <= i
             IN  StrLen(SubSeq(str, first, last))

\* C12: a text is refused as too long exactly when it is a string with more
\* than MAX_TEXT_LENGTH characters from its first to its last non-whitespace
\* character; a text with 1..MAX_TEXT_LENGTH such characters is passed to
\* parseReceiptText without the surrounding whitespace, however long that
\* makes the raw text, and a text of more than MAX_TEXT_LENGTH whitespace
\* characters is refused as empty, not as too long.
C12_LengthAfterTrim ==
    \A s \in Slots :
        Ran(s, "validate") =>
            /\ RefusedWith(s, MsgTooLong)
                  <=> /\ HasStringText(slots[s].request)
                      /\ ContentLength(slots[s].request.body.text.s) > MAX_TEXT_LENGTH
            /\ (HasStringText(slots[s].request)
                  /\ ContentLength(slots[s].request.body.text.s) \in 1..MAX_TEXT_LENGTH)
                  => /\ Ran(s, "extract")
                     /\ StrLen(slots[s].adapterArg.s) =
                            ContentLength(slots[s].request.body.text.s)
            /\ (HasStringText(slots[s].request)
                  /\ slots[s].request.body.text.s # <<>>
                  /\ ContentLength(slots[s].request.body.text.s) = 0)
                  => RefusedWith(s, MsgEmptyText)

\* A text of MAX_TEXT_LENGTH characters between two spaces, passed
C12_Witness ==
    \E s \in Slots :
        /\ slots[s].request =
              TextBody(<<Run("ws", 1), Run("nw", MAX_TEXT_LENGTH), Run("ws", 1)>>)
        /\ StrLen(slots[s].request.body.text.s) > MAX_TEXT_LENGTH
        /\ Passed(s)
        /\ StrLen(slots[s].adapterArg.s) = MAX_TEXT_LENGTH

----------------------------------------------------------------------------
(* The outcomes of the extraction (Spec, SpecSerial) *)

\* The completions call of the request of slot s resolved with no candidate
NoCandidate(s) == slots[s].pc = "done" /\ slots[s].completion = Resolves(Null)

\* The completions call of the request of slot s rejected
CallRejected(s) ==
    /\ slots[s].pc = "done"
    /\ slots[s].completion # Undefined
    /\ slots[s].completion.k = "rejects"

\* C13: a request whose completions call resolves with no candidate (parsed
\* is null) is answered 500 with the fixed extraction-failed message and no
\* headers, the response a request gets whose call rejects; it is never
\* answered 200.
C13_NoCandidate ==
    /\ \A s \in Slots :
          NoCandidate(s) =>
              /\ slots[s].response.status = 500
              /\ slots[s].response.body =
                    [error |-> <<"Failed to parse receipt. Please try again.">>]
              /\ slots[s].response.headers = NoHeaders
              /\ slots[s].adapterCalls = 1
    /\ \A s, r \in Slots :
          (NoCandidate(s) /\ CallRejected(r)) => slots[s].response = slots[r].response

\* One request whose call gave no candidate and one whose call rejected,
\* both answered
C13_Witness ==
    /\ NoCandidate(1)
    /\ CallRejected(2)
    /\ slots[1].response.status = 500
    /\ slots[1].logged = <<"Failed to parse receipt:">> \o NoDataMessage

\* The completions call of the request of slot s resolved with a candidate
GotCandidate(s) ==
    /\ slots[s].pc = "done"
    /\ slots[s].completion # Undefined
    /\ slots[s].completion.k = "resolves"
    /\ slots[s].completion.parsed # Null

\* C15: the receipt returned for a candidate with N line items has N items,
\* the i-th with the name and the price of the candidate's i-th item and
\* with an identifier that is not empty and differs from the identifier of
\* every other item of the receipt; store, date, tax and total are the
\* candidate's.  (The receipt is the body of the 200 response;
\* crypto.randomUUID is taken to return a value it has not returned before.)
C15_EnrichmentPurity ==
    \A s \in Slots :
        GotCandidate(s) =>
            LET candidate == slots[s].completion.parsed
                receipt == slots[s].response.body
            IN  /\ slots[s].response.status = 200
                /\ DOMAIN receipt = {"store", "date", "items", "tax", "total"}
                /\ receipt.store = candidate.store
                /\ receipt.date = candidate.date
                /\ receipt.tax = candidate.tax
                /\ receipt.total = candidate.total
                /\ Len(receipt.items) = Len(candidate.items)
                /\ \A i \in 1..Len(candidate.items) :
                      /\ DOMAIN receipt.items[i] = {"id", "name", "price"}
                      /\ receipt.items[i].name = candidate.items[i].name
                      /\ receipt.items[i].price = candidate.items[i].price
                      /\ receipt.items[i].id # <<>>
                      /\ \A j \in 1..Len(candidate.items) :
                            i # j => receipt.items[i].id # receipt.items[j].id

\* The receipt of a candidate with two lines of the same name and price,
\* returned after identifiers had been drawn for an earlier receipt
C15_Witness ==
    \E s \in Slots :
        /\ GotCandidate(s)
        /\ slots[s].completion.parsed = TwinCandidate
        /\ uuidCount = 4
        /\ Len(slots[s].response.body.items) = 2
        /\ slots[s].response.body.items[1].name = slots[s].response.body.items[2].name

----------------------------------------------------------------------------
(* The missing credential (SpecConfig) *)

\* C14: a request that arrives while the credential is absent (the variable
\* unset or empty) is answered at once, 500, with the fixed configuration
\* message and no headers, whatever its body and whatever is stored for its
\* identity; the rate limiter is not consulted (requestLog stays as it is),
\* and neither the validation nor the extraction runs.
C14_ConfigError ==
    [][(started' = started + 1 /\ ~CredentialPresent) =>
          /\ requestLog' = requestLog
          /\ uuidCount' = uuidCount
          /\ \E s \in Slots :
                /\ FreeSlot(s)
                /\ slots'[s].pc = "done"
                /\ slots'[s].response =
                      [status |-> 500,
                       body |-> [error |->
                           <<"Server configuration error. Please try again later.">>],
                       headers |-> NoHeaders]
                /\ slots'[s].stages = <<"config">>
                /\ slots'[s].rateLimitResult = Undefined
                /\ slots'[s].adapterCalls = 0
                /\ \A r \in Slots \ {s} : slots'[r] = slots[r]]_vars

\* A request with a body that is no JSON, of an identity that has used up
\* its window, answered with the configuration error
C14_Witness ==
    /\ ~CredentialPresent
    /\ slots[1].pc = "done"
    /\ slots[1].request = BodyThrows
    /\ slots[1].response.status = 500
    /\ slots[1].stages = <<"config">>
    /\ "1.2.3.4" \in DOMAIN requestLog
    /\ Len(requestLog["1.2.3.4"]) = MAX_REQUESTS
    /\ now - requestLog["1.2.3.4"][1] < WINDOW_MS

----------------------------------------------------------------------------
(* No retries (Spec) *)

Count(seq, x) == Cardinality({i \in 1..Len(seq) : seq[i] = x})

\* Every stage has run at most once for the request of slot s, and the
\* request has a response exactly when it is done, with one of the four
\* statuses.
AtMostOnce(s) ==
    /\ \A stage \in {"config", "rate", "validate", "extract"} :
          Count(slots[s].stages, stage) <= 1
    /\ slots[s].adapterCalls <= 1
    /\ slots[s].pc = "done" <=> slots[s].response # Undefined
    /\ slots[s].pc = "done" => slots[s].response.status \in {200, 400, 429, 500}

\* C16: for every request parseReceiptText is called at most once and
\* checkRateLimit at most once (requestLog changes only in the step that
\* takes a request), the request is answered once, with 200, 400, 429 or
\* 500, and nothing of an answered request changes any more: its slot
\* changes only by taking the next request.
C16_NoRetries ==
    /\ [](\A s \in Slots : AtMostOnce(s))
    /\ [][/\ requestLog' # requestLog => started' = started + 1
          /\ \A s \in Slots :
                (slots[s].pc = "done" /\ slots'[s] # slots[s])
                    => started' = started + 1]_vars

\* A request answered 500 after the one call of parseReceiptText threw,
\* beside a request the validation refused
C16_Witness ==
    \E s, r \in Slots :
        /\ AdapterThrew(s)
        /\ slots[s].adapterCalls = 1
        /\ slots[s].stages = StageOrder
        /\ slots[s].response.status = 500
        /\ slots[r].pc = "done"
        /\ slots[r].response.status = 400

----------------------------------------------------------------------------
(* The identity of a client (SpecShared) *)

\* C17: the identity a request is counted under is the value of its
\* x-forwarded-for header, or "unknown" when it has none, whatever peer sent
\* it; requestLog has no other keys; and a request without the header is
\* rejected when MAX_REQUESTS requests without the header have been admitted
\* within the window before it, whichever peers sent them.
C17_SharedBucket ==
    /\ \A s \in Slots :
          Ran(s, "rate") =>
              slots[s].clientIp =
                  IF slots[s].hdr.present THEN slots[s].hdr.value ELSE "unknown"
    /\ DOMAIN requestLog \subseteq {"unknown", "1.2.3.4"}
    /\ \A s \in Slots :
          (Ran(s, "rate") /\ ~slots[s].hdr.present /\ lastCheck.ip = "unknown"
              /\ AdmittedInWindowAtLastCheck >= MAX_REQUESTS)
              => /\ slots[s].pc = "done"
                 /\ slots[s].response.status = 429

\* The eleventh request without the header, sent by one peer and rejected,
\* the ten before it all sent by the other
C17_Witness ==
    \E s \in Slots :
        /\ slots[s].pc = "done"
        /\ slots[s].hdr = NoHeaderFrom("10.0.0.2")
        /\ slots[s].response.status = 429
        /\ senders["unknown"] = {"10.0.0.1"}
        /\ Len(admitted["unknown"]) = MAX_REQUESTS
        /\ lastCheck.ip = "unknown"
        /\ ~lastCheck.result.allowed

----------------------------------------------------------------------------
(* The boundary of the window and the retry delay (SpecLoad) *)

\* The admitted request that was the MAX_REQUESTS-th before the last check
\* of its identity, counted backwards: the oldest of the MAX_REQUESTS most
\* recent entries
TenthBefore == admitted[lastCheck.ip][lastCheck.before - MAX_REQUESTS + 1]

\* C18: an entry is kept exactly when it is less than WINDOW_MS old: what is
\* stored for an identity is, in order, every admitted request less than
\* WINDOW_MS older than the last admitted one; and once MAX_REQUESTS requests
\* have been admitted, a request is admitted when the oldest of the last
\* MAX_REQUESTS is WINDOW_MS old or older, and rejected when it is younger,
\* be it by 1 ms.
C18_StrictBoundary ==
    /\ \A ip \in DOMAIN requestLog :
          LET h == admitted[ip]
          IN  /\ h # <<>>
              /\ requestLog[ip] =
                    SelectSeq(h, LAMBDA e : h[Len(h)] - e < WINDOW_MS)
    /\ (lastCheck.made /\ lastCheck.before >= MAX_REQUESTS) =>
          (lastCheck.result.allowed <=> lastCheck.at - TenthBefore >= WINDOW_MS)

\* A request admitted exactly WINDOW_MS after the oldest of the MAX_REQUESTS
\* entries, beside one that was rejected 1 ms before it
C18_Witness ==
    /\ lastCheck.made
    /\ lastCheck.before = MAX_REQUESTS
    /\ lastCheck.result.allowed
    /\ lastCheck.at - TenthBefore = WINDOW_MS
    /\ Len(requestLog[lastCheck.ip]) = 1
    /\ \E s \in Slots :
          /\ Rejected(s)
          /\ slots[s].rateLimitResult.retryAfterMs = 1

\* The entries of the last checked identity that its check found in the
\* window, from the history
InWindowAtLastCheck ==
    {admitted[lastCheck.ip][i] : i \in
        {j \in 1..lastCheck.before :
            lastCheck.at - admitted[lastCheck.ip][j] < WINDOW_MS}}

Minimum(S) == CHOOSE x \in S : \A y \in S : x <= y

\* C19: on every rejection retryAfterMs is WINDOW_MS - (now - oldest), oldest
\* being the least of the timestamps still in the window, and so more than 0
\* and at most WINDOW_MS.
C19_RetryAfterValue ==
    (lastCheck.made /\ ~lastCheck.result.allowed) =>
        /\ InWindowAtLastCheck # {}
        /\ lastCheck.result.retryAfterMs =
              WINDOW_MS - (lastCheck.at - Minimum(InWindowAtLastCheck))
        /\ lastCheck.result.retryAfterMs > 0
        /\ lastCheck.result.retryAfterMs <= WINDOW_MS

\* A rejection whose window holds entries of different times, more than
\* MAX_REQUESTS requests having been admitted before
C19_Witness ==
    /\ lastCheck.made
    /\ ~lastCheck.result.allowed
    /\ lastCheck.before > MAX_REQUESTS
    /\ Cardinality(InWindowAtLastCheck) > 1
    /\ lastCheck.result.retryAfterMs < WINDOW_MS

\* C20: the timestamps stored for an identity are in non-decreasing order,
\* the order in which they were added, and none is later than now: the
\* stored sequence is the tail of the sequence of the identity's admitted
\* requests, and its first entry is its oldest.  (Date.now() is taken never
\* to go back.)
C20_LogSorted ==
    \A ip \in DOMAIN requestLog :
        /\ \A i, j \in 1..Len(requestLog[ip]) :
              i < j => requestLog[ip][i] <= requestLog[ip][j]
        /\ \A i \in 1..Len(requestLog[ip]) : requestLog[ip][i] <= now
        /\ \E k \in 0..Len(admitted[ip]) :
              requestLog[ip] = SubSeq(admitted[ip], k + 1, Len(admitted[ip]))

\* A stored sequence with entries of three different times
C20_Witness ==
    \E ip \in DOMAIN requestLog :
        /\ Len(requestLog[ip]) >= 3
        /\ requestLog[ip][1] < requestLog[ip][2]
        /\ requestLog[ip][2] < requestLog[ip][Len(requestLog[ip])]

----------------------------------------------------------------------------
(* Compaction (SpecLoad) *)

\* C21: every decision counts the entries less than WINDOW_MS old only: a
\* request is admitted exactly when fewer than MAX_REQUESTS of the
\* identity's admitted requests are less than WINDOW_MS older than it; and
\* the sequence an admitting check stores holds no entry that is WINDOW_MS
\* or more older than the check, and ends with the time of the check.
C21_PurgedBeforeDecision ==
    lastCheck.made =>
        /\ lastCheck.result.allowed <=> AdmittedInWindowAtLastCheck < MAX_REQUESTS
        /\ lastCheck.result.allowed =>
              LET stored == requestLog[lastCheck.ip]
              IN  /\ \A i \in 1..Len(stored) : lastCheck.at - stored[i] < WINDOW_MS
                  /\ \A i \in 1..Len(stored) : lastCheck.at - stored[i] >= 0
                  /\ stored[Len(stored)] = lastCheck.at
                  /\ Len(stored) = AdmittedInWindowAtLastCheck + 1

\* An admitting check that purged one entry and kept another
C21_Witness ==
    /\ lastCheck.made
    /\ lastCheck.result.allowed
    /\ AdmittedInWindowAtLastCheck >= 1
    /\ AdmittedInWindowAtLastCheck < lastCheck.before
    /\ Len(requestLog[lastCheck.ip]) < Len(admitted[lastCheck.ip])

----------------------------------------------------------------------------
(* The life of an entry and the reset (SpecReset) *)

\* A step of the handling of a request
RequestStep == started' # started \/ slots' # slots

\* The step admits a request of this identity
Admits(ip) == admitted'[ip] # admitted[ip]

\* C22: an identity has an entry exactly when a request of it has been
\* admitted (since the last reset); a step of request handling that admits a
\* request of an identity leaves the identity with an entry that ends with
\* the time of the request and differs from the one before; a step of
\* request handling that admits none leaves requestLog as it is; so no step
\* of request handling removes an identity, and a step that does remove one
\* is a reset and removes all.
C22_Lifecycle ==
    /\ [](\A ip \in Identities : ip \in DOMAIN requestLog <=> admitted[ip] # <<>>)
    /\ [][RequestStep =>
            /\ DOMAIN requestLog \subseteq DOMAIN requestLog'
            /\ \A ip \in Identities :
                  IF Admits(ip)
                  THEN /\ ip \in DOMAIN requestLog'
                       /\ requestLog'[ip][Len(requestLog'[ip])] = now
                       /\ ip \in DOMAIN requestLog => requestLog'[ip] # requestLog[ip]
                       /\ ip \notin DOMAIN requestLog => requestLog'[ip] = <<now>>
                  ELSE /\ ip \in DOMAIN requestLog' <=> ip \in DOMAIN requestLog
                       /\ ip \in DOMAIN requestLog => requestLog'[ip] = requestLog[ip]]_vars
    /\ [][~(DOMAIN requestLog \subseteq DOMAIN requestLog')
            => (~RequestStep /\ requestLog' = EmptyMap)]_vars

\* Both identities with an entry, the one of "unknown" left by a rejected
\* request with all its MAX_REQUESTS timestamps
C22_Witness ==
    /\ DOMAIN requestLog = {"unknown", "1.2.3.4"}
    /\ lastCheck.made
    /\ lastCheck.ip = "unknown"
    /\ ~lastCheck.result.allowed
    /\ Len(requestLog["unknown"]) = MAX_REQUESTS
    /\ requestLog["1.2.3.4"] # <<>>

\* C23: after resetRateLimiter nothing is stored, and every request of an
\* identity is admitted until MAX_REQUESTS requests of it have been admitted
\* since: each decision is the one a limiter gives that was created at the
\* reset; and no step of request handling empties requestLog or removes an
\* identity from it.
C23_Reset ==
    /\ [](lastCheck.made =>
            /\ lastCheck.before < MAX_REQUESTS => lastCheck.result.allowed
            /\ lastCheck.result = lastCheck.solo)
    /\ [][(~RequestStep /\ requestLog' # requestLog) =>
            /\ requestLog' = EmptyMap
            /\ \A ip \in Identities : admitted'[ip] = <<>>]_vars
    /\ [][RequestStep =>
            /\ DOMAIN requestLog \subseteq DOMAIN requestLog'
            /\ requestLog' # EmptyMap \/ requestLog = EmptyMap]_vars

\* The first request of an identity after a reset, admitted before the time
\* the identity's last rejection had told it to wait for
C23_Witness ==
    /\ lastCheck.made
    /\ lastCheck.result.allowed
    /\ lastCheck.before = 0
    /\ lastCheck.prevRetryAt > lastCheck.at
    /\ requestLog = (lastCheck.ip :> <<lastCheck.at>>)

----------------------------------------------------------------------------
(* The result of the rate limiter (SpecPair) *)

\* C24: every call of checkRateLimit, for either identity and whatever is
\* stored, returns a result: an object with the boolean allowed and nothing
\* else when it admits, and with allowed = false and a retryAfterMs that is a
\* non-negative integer when it rejects.
C24_ResultShape ==
    lastCheck.made =>
        /\ lastCheck.result.allowed \in BOOLEAN
        /\ DOMAIN lastCheck.result =
              IF lastCheck.result.allowed THEN {"allowed"}
              ELSE {"allowed", "retryAfterMs"}
        /\ ~lastCheck.result.allowed => lastCheck.result.retryAfterMs \in Nat

\* A rejection of one identity while the other has an entry of its own, some
\* time after the rejected identity's first request
C24_Witness ==
    /\ lastCheck.made
    /\ ~lastCheck.result.allowed
    /\ lastCheck.result.retryAfterMs \in 1..(WINDOW_MS - 1)
    /\ DOMAIN requestLog = {"unknown", "1.2.3.4"}

----------------------------------------------------------------------------
(* extractText: the worker and the progress callback (SpecOcr) *)

Settled(c) == ocr[c].pc = "settled"

\* The position of the first occurrence of a step in the steps of a call, 0
\* when there is none
StepAt(c, step) ==
    IF \E i \in 1..Len(ocr[c].steps) : ocr[c].steps[i] = step
    THEN CHOOSE i \in 1..Len(ocr[c].steps) :
             /\ ocr[c].steps[i] = step
             /\ \A j \in 1..(i - 1) : ocr[c].steps[j] # step
    ELSE 0

\* C25: a call of extractText holds at most one worker; worker.terminate is
\* called for a worker exactly once, never while recognition is under way
\* and never for a worker that was not created; when the promise of
\* extractText settles after a worker was created, terminate has been called
\* once and has settled before, whether recognition succeeded or failed; and
\* when recognition failed the promise is rejected.
C25_WorkerReleased ==
    \A c \in Calls :
        /\ ocr[c].workers <= 1
        /\ ocr[c].terminated <= ocr[c].workers
        /\ ocr[c].pc = "recognize" => (ocr[c].workers = 1 /\ ocr[c].terminated = 0)
        /\ Count(ocr[c].steps, "terminate") = ocr[c].terminated
        /\ Settled(c) =>
              /\ ocr[c].terminated = ocr[c].workers
              /\ ocr[c].workers = 1 =>
                    /\ StepAt(c, "recognize") < StepAt(c, "terminate")
                    /\ StepAt(c, "terminate") < StepAt(c, "terminated")
                    /\ StepAt(c, "terminated") < StepAt(c, "settle")
              /\ (ocr[c].pending # Undefined /\ ocr[c].pending.k = "rejected")
                    => ocr[c].settled.k = "rejected"

\* A call whose recognition failed: the worker terminated, the promise
\* rejected with the error of the recognition
C25_Witness ==
    \E c \in Calls :
        /\ Settled(c)
        /\ ocr[c].workers = 1
        /\ ocr[c].terminated = 1
        /\ ocr[c].pending = [k |-> "rejected", error |-> JError(<<"Image processing failed">>)]
        /\ ocr[c].settled = ocr[c].pending

\* The progress values of the events with the status of the work phase
RECURSIVE WorkProgress(_)
WorkProgress(events) ==
    IF events = <<>> THEN <<>>
    ELSE IF Head(events).status = "recognizing text"
         THEN <<Head(events).progress>> \o WorkProgress(Tail(events))
         ELSE WorkProgress(Tail(events))

\* C26: the values given to onProgress are, in order, the progress values of
\* exactly the logged events whose status is "recognizing text", each as it
\* was logged; an event of another status gives none; a call without
\* onProgress gives none.
C26_ProgressOnlyWhileRecognizing ==
    \A c \in Calls :
        ocr[c].delivered =
            IF ocr[c].hasOnProgress THEN WorkProgress(ocr[c].events) ELSE <<>>

\* A call that logged an event of the setup and one of the work, the second
\* alone given to onProgress
C26_Witness ==
    \E c \in Calls :
        /\ ocr[c].hasOnProgress
        /\ ocr[c].events = <<LogInfo("initializing api", 100),
                             LogInfo("recognizing text", 50)>>
        /\ ocr[c].delivered = <<50>>

----------------------------------------------------------------------------
(* Properties of the upload page (SpecPage) *)

Free(r) == processRuns[r].pc \in {"idle", "done"}

OcrFailed(r) ==
    /\ processRuns[r].pc # "idle"
    /\ ocr[r].pc = "settled"
    /\ ocr[r].settled.k = "rejected"

OcrSucceeded(r) ==
    /\ processRuns[r].pc # "idle"
    /\ ocr[r].pc = "settled"
    /\ ocr[r].settled.k = "resolved"

\* C28: in one run of handleProcess extractText is called once and fetch at
\* most once; a parse request has been sent only if the run's call of
\* extractText resolved, and its body is the text that call resolved with;
\* when the call rejected no parse request has been sent, the run's only
\* step left is the one that ends it, and once it has ended the error is
\* recorded in ocrError (the message of an Error object) and the run is
\* over for the page.
C28_OcrBeforeParse ==
    \A r \in Calls :
        /\ processRuns[r].extractCalls <= 1
        /\ Len(processRuns[r].sent) <= 1
        /\ processRuns[r].pc \in {"fetch", "json"} => Len(processRuns[r].sent) = 1
        /\ processRuns[r].sent # <<>> =>
               /\ OcrSucceeded(r)
               /\ processRuns[r].sent[1].body.hasText
               /\ processRuns[r].sent[1].body.text.s = ocr[r].settled.value.text
        /\ OcrFailed(r) =>
               /\ processRuns[r].sent = <<>>
               /\ processRuns[r].extractCalls = 1
               /\ processRuns[r].pc \in {"ocr", "done"}
               /\ processRuns[r].pc = "done" =>
                      /\ home.ocrError # Null
                      /\ ocr[r].settled.error.t = "error" =>
                             home.ocrError.s = ocr[r].settled.error.message
                      /\ ~home.isProcessing

\* C28 witness: a run ended by the failure of worker.recognize, with the
\* error recorded and nothing sent, after an earlier run whose receipt had
\* been parsed
C28_Witness ==
    /\ processRuns[1].pc = "done"
    /\ OcrFailed(1)
    /\ ocr[1].workers = 1
    /\ home.ocrError = JStr(<<"Image processing failed">>)
    /\ processRuns[1].sent = <<>>
    /\ receiptContext.receiptImage # Null

\* C29: while a run of handleProcess is under way isProcessing is true and
\* the button is disabled, no two runs are under way at once, and a run
\* starts only in a state where every earlier run has finished.
C29_NoOverlap ==
    /\ [](\A r \in Calls : ~Free(r) => home.isProcessing /\ ButtonDisabled(home))
    /\ [](Cardinality({r \in Calls : ~Free(r)}) <= 1)
    /\ [][\A r \in Calls :
              (Free(r) /\ processRuns'[r].pc = "ocr") => \A q \in Calls : Free(q)]_vars

\* C29 witness: a second run waits for the parse response, the first one
\* having put its receipt image in the context
C29_Witness ==
    /\ processRuns[1].pc = "fetch"
    /\ home.isProcessing
    /\ receiptContext.receiptImage # Null
    /\ receiptContext.receipt = Null

Invalid(file) == file # NoFile /\ file.type \notin {"image/jpeg", "image/png"}

Valid(file) == file # NoFile /\ file.type \in {"image/jpeg", "image/png"}

\* C30: when the last file picked was invalid, the error message is shown,
\* onFileSelect was not called with it and no preview is shown; when it was
\* valid, no error is shown and the preview shows that file.
C30_AsStated ==
    /\ Invalid(uploader.lastPick) =>
           /\ uploader.error = JStr(<<"Please select a JPG or PNG image">>)
           /\ ~uploader.onFileSelect
           /\ ~PreviewShown(preview)
    /\ Valid(uploader.lastPick) =>
           /\ uploader.error = Null
           /\ PreviewShown(preview)
           /\ preview.previewUrl.blob = uploader.lastPick

----------------------------------------------------------------------------
(* Frame conditions of the rate limiter *)

\* A step that is a request whose rate check rejects it
RejectingStep ==
    /\ started' = started + 1
    /\ lastCheck'.made
    /\ lastCheck'.at = now
    /\ ~lastCheck'.result.allowed
    /\ \E s \in Slots : slots'[s] # slots[s] /\ slots'[s].stages = <<"config", "rate">>

\* C31: a request that checkRateLimit rejects leaves requestLog as it was,
\* and a rejection that follows a rejection of the same identity, no request
\* of it admitted in between, names the same moment of retry as the one
\* before it.
C31_RejectionFrame ==
    /\ [][RejectingStep => requestLog' = requestLog]_vars
    /\ []((lastCheck.made /\ ~lastCheck.result.allowed /\ lastCheck.prevRetryAt >= 0)
            => lastCheck.at + lastCheck.result.retryAfterMs = lastCheck.prevRetryAt)

\* C31 witness: a second rejection in a row, later than the first, with the
\* MAX_REQUESTS timestamps of the admitted requests stored
C31_Witness ==
    /\ lastCheck.made
    /\ ~lastCheck.result.allowed
    /\ lastCheck.prevRetryAt >= 0
    /\ lastCheck.result.retryAfterMs < WINDOW_MS
    /\ lastCheck.before = MAX_REQUESTS
    /\ Len(requestLog[lastCheck.ip]) = MAX_REQUESTS
    /\ started = MAX_REQUESTS + 2

\* C32: every identity that requestLog holds has at least one and at most
\* MAX_REQUESTS timestamps stored.
C32_StoredLength ==
    \A ip \in DOMAIN requestLog :
        Len(requestLog[ip]) >= 1 /\ Len(requestLog[ip]) <= MAX_REQUESTS

\* C32 witness: MAX_REQUESTS requests were admitted and stored, all of them
\* expired, and the admission after that left one timestamp
C32_Witness ==
    \E ip \in DOMAIN requestLog :
        /\ Len(requestLog[ip]) = 1
        /\ Len(admitted[ip]) = MAX_REQUESTS + 1
        /\ admitted[ip][MAX_REQUESTS] + WINDOW_MS <= requestLog[ip][1]

----------------------------------------------------------------------------
(* Failed requests and the rate limit (SpecFail) *)

\* A step that ends an admitted request with a refusal of the validation or
\* a failure of the extraction
FailingStep ==
    \E s \in Slots :
        /\ slots[s].pc \in {"awaitBody", "awaitParse"}
        /\ slots'[s].pc = "done"
        /\ slots'[s].response.status \in {400, 500}

\* C33: requests whose rate check admitted them and that all ended in 400
\* or 500 keep their timestamps: the step that ends such a request leaves
\* requestLog as it is, and once MAX_REQUESTS of them lie within the window
\* the next request of the identity, a valid one too, is answered 429
\* without validation or extraction.
C33_SlotConsumed ==
    /\ [][FailingStep => requestLog' = requestLog]_vars
    /\ [](\A s \in Slots :
             slots[s].pc = "done" => slots[s].response.status \in {400, 429, 500})
    /\ []((lastCheck.made /\ AdmittedInWindowAtLastCheck >= MAX_REQUESTS)
             => /\ ~lastCheck.result.allowed
                /\ \A s \in Slots :
                      slots[s].pc # "idle" =>
                          /\ slots[s].pc = "done"
                          /\ slots[s].response.status = 429
                          /\ slots[s].stages = <<"config", "rate">>)

\* C33 witness: the eleventh request, a valid one, answered 429, the ten
\* admitted before it having ended in 400 or 500
C33_Witness ==
    /\ started = MAX_REQUESTS + 1
    /\ Len(admitted["1.2.3.4"]) = MAX_REQUESTS
    /\ slots[1].pc = "done"
    /\ PassesValidation(slots[1].request)
    /\ slots[1].response.status = 429
    /\ slots[1].adapterCalls = 0

----------------------------------------------------------------------------
(* Configuration errors and the rate limit (SpecRestore) *)

\* A step that is a request answered with the configuration error
ConfigErrorStep ==
    /\ started' = started + 1
    /\ \E s \in Slots :
          /\ slots'[s] # slots[s]
          /\ slots'[s].pc = "done"
          /\ slots'[s].stages = <<"config">>
          /\ slots'[s].response.status = 500

\* C34: a request answered with the configuration error leaves requestLog
\* as it is, and takes no place in its identity's window: a request that is
\* checked while fewer than MAX_REQUESTS admitted requests of its identity
\* lie within the window is admitted, however many requests of the identity
\* were answered with the configuration error before.
C34_ConfigFrame ==
    /\ [][ConfigErrorStep => requestLog' = requestLog]_vars
    /\ []((lastCheck.made /\ AdmittedInWindowAtLastCheck < MAX_REQUESTS)
            => lastCheck.result.allowed)

\* C34 witness: the twelfth request is the tenth admitted, two requests
\* before it having been answered with the configuration error
C34_Witness ==
    /\ started = MAX_REQUESTS + 2
    /\ lastCheck.made
    /\ lastCheck.at = now
    /\ lastCheck.before = MAX_REQUESTS - 1
    /\ AdmittedInWindowAtLastCheck = MAX_REQUESTS - 1
    /\ lastCheck.result.allowed
    /\ Len(requestLog["1.2.3.4"]) = MAX_REQUESTS

----------------------------------------------------------------------------
(* The argument of the extraction adapter (SpecSerial) *)

\* The runs of a string from its first to its last run that is no
\* whitespace
Content(str) ==
    LET content == {i \in 1..Len(str) : str[i].c = "nw"}
    IN  IF content = {} THEN <<>>
        ELSE SubSeq(str, CHOOSE i \in content : \A j \in content : i <= j,
                         CHOOSE i \in content : \A j \in content : j <= i)

\* C35: parseReceiptText is called at most once for a request, and what it
\* is called with is a string: the text of the request without the
\* whitespace before its first and after its last other character, of 1 to
\* MAX_TEXT_LENGTH characters, beginning and ending with a character that
\* is no whitespace.
C35_AdapterArgument ==
    \A s \in Slots :
        /\ slots[s].adapterCalls <= 1
        /\ slots[s].adapterCalls = 1 =>
               LET arg == slots[s].adapterArg
               IN  /\ arg.t = "string"
                   /\ HasStringText(slots[s].request)
                   /\ arg.s = Content(slots[s].request.body.text.s)
                   /\ StrLen(arg.s) >= 1
                   /\ StrLen(arg.s) <= MAX_TEXT_LENGTH
                   /\ arg.s[1].c = "nw"
                   /\ arg.s[Len(arg.s)].c = "nw"

\* C35 witness: a text with whitespace at both ends and inside; the adapter
\* was called with the shorter text, the whitespace inside kept
C35_Witness ==
    \E s \in Slots :
        /\ slots[s].adapterCalls = 1
        /\ slots[s].request.body.text.s =
              <<Run("ws", 2), Run("nw", 7), Run("ws", 1), Run("nw", 4), Run("ws", 1)>>
        /\ slots[s].adapterArg.s = <<Run("nw", 7), Run("ws", 1), Run("nw", 4)>>
        /\ slots[s].pc = "done"
        /\ slots[s].response.status = 200

----------------------------------------------------------------------------
(* Flags and results of the upload page (SpecPage) *)

Finished(r) == processRuns[r].pc = "done"

\* The way run r ended
EndedBy(r) ==
    IF OcrFailed(r) THEN "ocr failure"
    ELSE IF processRuns[r].response = Undefined THEN "network failure"
    ELSE IF processRuns[r].response.status \in 200..299
              /\ processRuns[r].response.body # NotJson THEN "parse success"
    ELSE "parse failure"

\* C36: isParsing is true only while isProcessing is true, and exactly
\* while a run waits for fetch or for response.json(); isProcessing is true
\* exactly while a run is under way; so when the last run has finished, in
\* whichever way, both are false and the button is enabled.
C36_RunFlags ==
    /\ home.isParsing => home.isProcessing
    /\ home.isParsing <=> \E r \in Calls : processRuns[r].pc \in {"fetch", "json"}
    /\ home.isProcessing <=> \E r \in Calls : ~Free(r)
    /\ (\A r \in Calls : Free(r)) =>
           /\ ~home.isProcessing
           /\ ~home.isParsing
           /\ ~ButtonDisabled(home)

\* C36 witness: a run ended by a failure of the network, after a run with
\* a parsed receipt, the flags false and the button enabled
C36_Witness ==
    /\ Finished(1)
    /\ EndedBy(1) = "network failure"
    /\ home.parseError = JStr(<<"Failed to fetch">>)
    /\ ~home.isProcessing
    /\ ~home.isParsing
    /\ ButtonShown(home)
    /\ receiptContext.receiptImage # Null

\* C37: the step that starts a run leaves receipt, ocrError and parseError
\* null; the receipt is not null only when the last run has finished with a
\* response of a 2xx status, whose body it is; and when the last run has
\* finished exactly one of receipt, ocrError and parseError is not null:
\* the receipt after a parse success, ocrError after an OCR failure,
\* parseError after a parse or network failure.
C37_RunResults ==
    /\ [][\A r \in Calls :
              (Free(r) /\ processRuns'[r].pc = "ocr") =>
                  /\ receiptContext'.receipt = Null
                  /\ home'.ocrError = Null
                  /\ home'.parseError = Null]_vars
    /\ [](receiptContext.receipt # Null =>
             \E r \in Calls :
                 /\ Finished(r)
                 /\ processRuns[r].response # Undefined
                 /\ processRuns[r].response.status \in 200..299
                 /\ receiptContext.receipt = processRuns[r].response.body)
    /\ [](\A r \in Calls :
             Finished(r) =>
                 /\ Cardinality(
                        {f \in {"receipt", "ocrError", "parseError"} :
                            [receipt |-> receiptContext.receipt,
                             ocrError |-> home.ocrError,
                             parseError |-> home.parseError][f] # Null}) = 1
                 /\ receiptContext.receipt # Null <=> EndedBy(r) = "parse success"
                 /\ home.ocrError # Null <=> EndedBy(r) = "ocr failure"
                 /\ home.parseError # Null <=>
                        EndedBy(r) \in {"parse failure", "network failure"})

\* C37 witness: a run ended by a response that is not ok, with its error
\* shown and no receipt, after a run that had put a receipt in the context
C37_Witness ==
    /\ Finished(1)
    /\ EndedBy(1) = "parse failure"
    /\ processRuns[1].response.status = 400
    /\ home.parseError =
          JStr(<<"Missing or invalid 'text' field. Expected a non-empty string.">>)
    /\ receiptContext.receipt = Null
    /\ receiptContext.receiptImage # Null

----------------------------------------------------------------------------
(* The object URLs of the preview (SpecPreview) *)

\* C38: in the step in which a valid file is picked one object URL is
\* created, for that file, and the URL of the file shown before is revoked;
\* picking an invalid file creates none; the one URL that is not revoked, if
\* there is one, is the URL shown, of the selected file; and the step in
\* which the preview unmounts leaves no URL unrevoked.
C38_UrlLifecycle ==
    /\ [](Cardinality(preview.unrevoked) <= 1)
    /\ [](preview.unrevoked =
             IF preview.previewUrl = Null THEN {} ELSE {preview.previewUrl})
    /\ [](preview.previewUrl # Null =>
             /\ preview.previewUrl.blob = home.selectedFile
             /\ preview.previewUrl.id = preview.created)
    /\ [][IF uploader'.onFileSelect
                /\ (uploader' # uploader \/ home' # home \/ preview' # preview)
           THEN /\ preview'.created = preview.created + 1
                /\ preview'.previewUrl.blob = uploader'.lastPick
                /\ preview.previewUrl \notin preview'.unrevoked
           ELSE preview'.created = preview.created]_vars
    /\ [][(preview.previewUrl # Null /\ preview'.previewUrl = Null)
              => preview'.unrevoked = {}]_vars

\* C38 witness: the page was left with the second file picked on show; two
\* URLs were created and none is unrevoked
C38_Witness ==
    /\ preview.created >= 2
    /\ preview.previewUrl = Null
    /\ preview.unrevoked = {}
    /\ home.selectedFile = Null

====
